---------------------------- MODULE Spec2Model ----------------------------
(***************************************************************************)
(* The session lifecycle engine of aberlorn/scs (data.go, the Session      *)
(* manager and the echo middleware envelope).                              *)
(*                                                                         *)
(* Spec: one manager serving a sequence of requests against a pluggable    *)
(* store.  SpecReturning: the same, the store already holding the session  *)
(* of an earlier request.  SpecDual: two managers on one request.          *)
(* SpecOverride: one request of a manager whose load hook is the "always   *)
(* require a token" override.  SpecRegistry: the named-manager registry    *)
(* and SessionsWithConfig, one caller.  SpecThreads: threads constructing  *)
(* managers and using the registry at the same time.  SpecShared: the      *)
(* goroutines of one request sharing its sessionData.                      *)
(*                                                                         *)
(* Tokens are naturals: 0 stands for the empty string "", 1..MaxTokens are *)
(* the values generateToken returns (32 random bytes: every draw is a      *)
(* value never seen before), MaxTokens + 1 is a token a client made up.    *)
(* Times are naturals; ZeroTime stands for time.Time{}.                    *)
(***************************************************************************)
EXTENDS Naturals, Integers, Sequences, FiniteSets, TLC

\* ------------------------------------------------------------- bounds
MaxTokens == 3
MaxTime == 4
MaxRequests == 2
MaxOps == 3

\* ------------------------------------------ configuration and constants
\* Session.Lifetime and a non-zero Session.IdleTimeout, in clock ticks.
Lifetime == 2
IdleT == 1

Unmodified == 0
Modified == 1
Destroyed == 2

EmptyToken == 0
\* The clock: ZeroTime is time.Time{}, UnixOne is time.Unix(1, 0), and every
\* time.Now() is later than both.
ZeroTime == 0
UnixOne == 1
StartTime == 2
ClearMaxAge == -1
NoMaxAge == 0

Forged == MaxTokens + 1
StoreTokens == 1..(MaxTokens + 1)

CookieName == "session"
CacheControlValue == "no-cache=Set-Cookie"
VaryValue == "Cookie"

\* Keys and values a handler may put.  "&obj" is a pointer to a registered
\* struct (the test's &MyObject{...}), "obj" the struct itself, "chan" a
\* value whose type gob cannot encode.
Keys == {"user", "obj"}
PutVals == {"alice", "&obj", "chan"}
Absent == "absent"
\* What a second Load reports when its token names another stored session.
OtherSession == "other session"
\* What went wrong in the store during a Load: Store.Find returned an error,
\* or bytes that gob does not decode into a sessionData.
FindFailed == "Find failed"
DecodeFailed == "decode failed"
NoSD == [nil |-> TRUE]
NoEntry == [nil |-> TRUE]

EmptyValues == [k \in Keys |-> Absent]

\* ------------------------------------------------------------- state
VARIABLES
    store,        \* Store: token -> [b, expiry] or NoEntry
    scratch,      \* the request's c.Get(contextKey): NoSD or a sessionData
    cookie,       \* the request's cookie value under Cookie.Name
    header,       \* the response header: Set-Cookie, Cache-Control, Vary
    pc,           \* position of the middleware closure
    now,          \* time.Now()
    nextToken,    \* the next value generateToken draws
    idleTimeout,  \* Session.IdleTimeout
    persist,      \* Session.Cookie.Persist
    nreq,         \* requests served
    nops,         \* operations the handlers have called
    steps,        \* history: the hooks the closure has run in this request
    written,      \* history: tokens this session's Commits wrote under
    renewed,      \* history: RenewToken succeeded and no Commit since
    committed,    \* history: token -> the values held when Commit last wrote it
    destroyed,    \* history: the tokens Destroy has deleted in this request
    last,         \* history: the last operation and what it returned
    ctx,          \* two managers: the request's scratch map, by contextKey
    stores,       \* two managers: each manager's Store
    override,     \* config.Session.LoadCheck is the "always require a token" one
    contextKeyID, \* the package variable generateContextKey counts in
    scache,       \* the package variable SessionCache returns
    caches,       \* the sessionCache objects allocated so far
    live,         \* history: the keys registered and not removed since
    mu,           \* sessionData.mu: the goroutine holding it
    tpc,          \* threads: the position of each thread in its call
    tloc,         \* threads: the locals of each thread's call
    hist          \* history: the calls the threads have completed

vars == <<store, scratch, cookie, header, pc, now, nextToken, idleTimeout,
          persist, nreq, nops, steps, written, renewed, committed, destroyed,
          last, ctx, stores, override, contextKeyID, scache, caches, live, mu,
          tpc, tloc, hist>>

\* The state of a request served by two managers; the single-manager
\* specifications leave it alone.
dual == <<ctx, stores>>

\* The process-wide state and the threads working on it; the specifications
\* of one thread serving requests leave it alone.
process == <<contextKeyID, scache, caches, live, mu, tpc, tloc, hist>>

\* ------------------------------------------------------------- codec
\* gob flattens pointers: a *MyObject put in the map decodes as a MyObject.
GobValue(v) == IF v = "&obj" THEN "obj" ELSE v

encode(sd) ==
    [ok |-> \A k \in Keys : sd.Values[k] # "chan",
     b  |-> [Deadline |-> sd.Deadline,
             Values   |-> [k \in Keys |-> GobValue(sd.Values[k])]]]

decode(sd, b) == [sd EXCEPT !.Deadline = b.Deadline, !.Values = b.Values]

\* ------------------------------------------------------------- store
StoreFind(st, token, t) ==
    IF token \in StoreTokens /\ st[token] # NoEntry /\ ~(t > st[token].expiry)
    THEN [found |-> TRUE, b |-> st[token].b]
    ELSE [found |-> FALSE, b |-> NoEntry]

StoreCommit(st, token, b, expiry) ==
    [st EXCEPT ![token] = [b |-> b, expiry |-> expiry]]

StoreDelete(st, token) ==
    IF token \in StoreTokens THEN [st EXCEPT ![token] = NoEntry] ELSE st

\* ------------------------------------------------------------- data.go
newSessionData(lifetime, t) ==
    [Deadline |-> t + lifetime, status |-> Unmodified,
     token |-> EmptyToken, Values |-> EmptyValues]

\* Mutant: a store or decode error is answered with a new session.
Load_SwallowsError(val, token, st, t, idle, findErr, decodeErr) ==
    IF val # NoSD
    THEN [sd |-> val, err |-> FALSE, found |-> FALSE]
    ELSE IF token = EmptyToken
    THEN [sd |-> newSessionData(Lifetime, t), err |-> FALSE, found |-> FALSE]
    ELSE IF findErr
    THEN [sd |-> newSessionData(Lifetime, t), err |-> FALSE, found |-> FALSE]
    ELSE IF ~StoreFind(st, token, t).found
    THEN [sd |-> newSessionData(Lifetime, t), err |-> FALSE, found |-> FALSE]
    ELSE IF decodeErr
    THEN [sd |-> newSessionData(Lifetime, t), err |-> FALSE, found |-> TRUE]
    ELSE LET sd0 == [Deadline |-> ZeroTime, status |-> Unmodified,
                     token |-> token, Values |-> EmptyValues]
             sd1 == decode(sd0, StoreFind(st, token, t).b)
         IN  [sd |-> IF idle > 0 THEN [sd1 EXCEPT !.status = Modified] ELSE sd1,
              err |-> FALSE, found |-> TRUE]

\* Mutant: Load looks the token up even when the context holds a session.
Load_Reloads(val, token, st, t, idle, findErr, decodeErr) ==
    IF token = EmptyToken
    THEN [sd |-> newSessionData(Lifetime, t), err |-> FALSE, found |-> FALSE]
    ELSE IF findErr
    THEN [sd |-> val, err |-> TRUE, found |-> FALSE]
    ELSE IF ~StoreFind(st, token, t).found
    THEN [sd |-> newSessionData(Lifetime, t), err |-> FALSE, found |-> FALSE]
    ELSE IF decodeErr
    THEN [sd |-> val, err |-> TRUE, found |-> TRUE]
    ELSE LET sd0 == [Deadline |-> ZeroTime, status |-> Unmodified,
                     token |-> token, Values |-> EmptyValues]
             sd1 == decode(sd0, StoreFind(st, token, t).b)
         IN  [sd |-> IF idle > 0 THEN [sd1 EXCEPT !.status = Modified] ELSE sd1,
              err |-> FALSE, found |-> TRUE]

\* Mutant: a found session is Unmodified even with an idle timeout.
Load_IdleUnmodified(val, token, st, t, idle, findErr, decodeErr) ==
    IF val # NoSD
    THEN [sd |-> val, err |-> FALSE, found |-> FALSE]
    ELSE IF token = EmptyToken
    THEN [sd |-> newSessionData(Lifetime, t), err |-> FALSE, found |-> FALSE]
    ELSE IF findErr
    THEN [sd |-> val, err |-> TRUE, found |-> FALSE]
    ELSE IF ~StoreFind(st, token, t).found
    THEN [sd |-> newSessionData(Lifetime, t), err |-> FALSE, found |-> FALSE]
    ELSE IF decodeErr
    THEN [sd |-> val, err |-> TRUE, found |-> TRUE]
    ELSE LET sd0 == [Deadline |-> ZeroTime, status |-> Unmodified,
                     token |-> token, Values |-> EmptyValues]
         IN  [sd |-> decode(sd0, StoreFind(st, token, t).b),
              err |-> FALSE, found |-> TRUE]

\* Mutant: a found payload is not decoded into the session.
Load_NoDecode(val, token, st, t, idle, findErr, decodeErr) ==
    IF val # NoSD
    THEN [sd |-> val, err |-> FALSE, found |-> FALSE]
    ELSE IF token = EmptyToken
    THEN [sd |-> newSessionData(Lifetime, t), err |-> FALSE, found |-> FALSE]
    ELSE IF findErr
    THEN [sd |-> val, err |-> TRUE, found |-> FALSE]
    ELSE IF ~StoreFind(st, token, t).found
    THEN [sd |-> newSessionData(Lifetime, t), err |-> FALSE, found |-> FALSE]
    ELSE IF decodeErr
    THEN [sd |-> val, err |-> TRUE, found |-> TRUE]
    ELSE [sd |-> [Deadline |-> StoreFind(st, token, t).b.Deadline,
                  status |-> IF idle > 0 THEN Modified ELSE Unmodified,
                  token |-> token, Values |-> EmptyValues],
          err |-> FALSE, found |-> TRUE]

\* Mutant: a token the store does not find becomes the new session's token.
Load_AdoptsToken(val, token, st, t, idle, findErr, decodeErr) ==
    IF val # NoSD
    THEN [sd |-> val, err |-> FALSE, found |-> FALSE]
    ELSE IF token = EmptyToken
    THEN [sd |-> newSessionData(Lifetime, t), err |-> FALSE, found |-> FALSE]
    ELSE IF findErr
    THEN [sd |-> val, err |-> TRUE, found |-> FALSE]
    ELSE IF ~StoreFind(st, token, t).found
    THEN [sd |-> [newSessionData(Lifetime, t) EXCEPT !.token = token],
          err |-> FALSE, found |-> FALSE]
    ELSE IF decodeErr
    THEN [sd |-> val, err |-> TRUE, found |-> TRUE]
    ELSE LET sd0 == [Deadline |-> ZeroTime, status |-> Unmodified,
                     token |-> token, Values |-> EmptyValues]
             sd1 == decode(sd0, StoreFind(st, token, t).b)
         IN  [sd |-> IF idle > 0 THEN [sd1 EXCEPT !.status = Modified] ELSE sd1,
              err |-> FALSE, found |-> TRUE]

\* Load: [sd, err, found]; sd is what c.Get(contextKey) holds afterwards.
\* findErr: Store.Find returns an error; decodeErr: the bytes it returns are
\* not a gob stream of a sessionData.
Load(val, token, st, t, idle, findErr, decodeErr) ==
    IF val # NoSD
    THEN [sd |-> val, err |-> FALSE, found |-> FALSE]
    ELSE IF token = EmptyToken
    THEN [sd |-> newSessionData(Lifetime, t), err |-> FALSE, found |-> FALSE]
    ELSE IF findErr
    THEN [sd |-> val, err |-> TRUE, found |-> FALSE]
    ELSE IF ~StoreFind(st, token, t).found
    THEN [sd |-> newSessionData(Lifetime, t), err |-> FALSE, found |-> FALSE]
    ELSE IF decodeErr
    THEN [sd |-> val, err |-> TRUE, found |-> TRUE]
    ELSE LET sd0 == [Deadline |-> ZeroTime, status |-> Unmodified,
                     token |-> token, Values |-> EmptyValues]
             sd1 == decode(sd0, StoreFind(st, token, t).b)
         IN  [sd |-> IF idle > 0 THEN [sd1 EXCEPT !.status = Modified] ELSE sd1,
              err |-> FALSE, found |-> TRUE]

\* Mutant: with an idle timeout the expiry is now + IdleTimeout, even when
\* that is after the deadline.
Commit_IdleOnly(sd, st, t, idle, newTok, genErr, commitErr) ==
    LET mint == sd.token = EmptyToken
        sd1  == IF mint /\ ~genErr THEN [sd EXCEPT !.token = newTok] ELSE sd
        enc  == encode(sd1)
        expiry == IF idle > 0 THEN t + idle ELSE sd1.Deadline
        fail(s, m) == [sd |-> s, store |-> st, token |-> EmptyToken,
                       expiry |-> ZeroTime, err |-> TRUE, minted |-> m]
    IN  IF mint /\ genErr THEN fail(sd1, FALSE)
        ELSE IF ~enc.ok THEN fail(sd1, mint)
        ELSE IF commitErr THEN fail(sd1, mint)
        ELSE [sd |-> sd1, store |-> StoreCommit(st, sd1.token, enc.b, expiry),
              token |-> sd1.token, expiry |-> expiry, err |-> FALSE,
              minted |-> mint]

\* Mutant: a successful Commit marks the session Unmodified.
Commit_ResetsStatus(sd, st, t, idle, newTok, genErr, commitErr) ==
    LET mint == sd.token = EmptyToken
        sd1  == IF mint /\ ~genErr THEN [sd EXCEPT !.token = newTok] ELSE sd
        enc  == encode(sd1)
        ie   == t + idle
        expiry == IF idle > 0 /\ ie < sd1.Deadline THEN ie ELSE sd1.Deadline
        fail(x, m) == [sd |-> x, store |-> st, token |-> EmptyToken,
                       expiry |-> ZeroTime, err |-> TRUE, minted |-> m]
    IN  IF mint /\ genErr THEN fail(sd1, FALSE)
        ELSE IF ~enc.ok THEN fail(sd1, mint)
        ELSE IF commitErr THEN fail(sd1, mint)
        ELSE [sd |-> [sd1 EXCEPT !.status = Unmodified],
              store |-> StoreCommit(st, sd1.token, enc.b, expiry),
              token |-> sd1.token, expiry |-> expiry, err |-> FALSE,
              minted |-> mint]

\* Mutant: every Commit draws a new token.
Commit_AlwaysMints(sd, st, t, idle, newTok, genErr, commitErr) ==
    LET sd1  == IF ~genErr THEN [sd EXCEPT !.token = newTok] ELSE sd
        enc  == encode(sd1)
        ie   == t + idle
        expiry == IF idle > 0 /\ ie < sd1.Deadline THEN ie ELSE sd1.Deadline
        fail(x, m) == [sd |-> x, store |-> st, token |-> EmptyToken,
                       expiry |-> ZeroTime, err |-> TRUE, minted |-> m]
    IN  IF genErr THEN fail(sd1, FALSE)
        ELSE IF ~enc.ok THEN fail(sd1, TRUE)
        ELSE IF commitErr THEN fail(sd1, TRUE)
        ELSE [sd |-> sd1, store |-> StoreCommit(st, sd1.token, enc.b, expiry),
              token |-> sd1.token, expiry |-> expiry, err |-> FALSE,
              minted |-> TRUE]

\* Commit: [sd, store, token, expiry, err, minted].
Commit(sd, st, t, idle, newTok, genErr, commitErr) ==
    LET mint == sd.token = EmptyToken
        sd1  == IF mint /\ ~genErr THEN [sd EXCEPT !.token = newTok] ELSE sd
        enc  == encode(sd1)
        ie   == t + idle
        expiry == IF idle > 0 /\ ie < sd1.Deadline THEN ie ELSE sd1.Deadline
        fail(s, m) == [sd |-> s, store |-> st, token |-> EmptyToken,
                       expiry |-> ZeroTime, err |-> TRUE, minted |-> m]
    IN  IF mint /\ genErr THEN fail(sd1, FALSE)
        ELSE IF ~enc.ok THEN fail(sd1, mint)
        ELSE IF commitErr THEN fail(sd1, mint)
        ELSE [sd |-> sd1, store |-> StoreCommit(st, sd1.token, enc.b, expiry),
              token |-> sd1.token, expiry |-> expiry, err |-> FALSE,
              minted |-> mint]

\* Mutant: Destroy resets the record and leaves the store entry in place.
Destroy_KeepsEntry(sd, st, t, deleteErr) ==
    IF deleteErr THEN [sd |-> sd, store |-> st, err |-> TRUE]
    ELSE [sd |-> [Deadline |-> t + Lifetime, status |-> Destroyed,
                  token |-> EmptyToken, Values |-> EmptyValues],
          store |-> st, err |-> FALSE]

\* Destroy: [sd, store, err].
Destroy(sd, st, t, deleteErr) ==
    IF deleteErr THEN [sd |-> sd, store |-> st, err |-> TRUE]
    ELSE [sd |-> [Deadline |-> t + Lifetime, status |-> Destroyed,
                  token |-> EmptyToken, Values |-> EmptyValues],
          store |-> StoreDelete(st, sd.token), err |-> FALSE]

Put(sd, key, val) ==
    [sd EXCEPT !.Values[key] = val, !.status = Modified]

Get(sd, key) == sd.Values[key]

\* Mutant: Pop returns the value and marks the session, the key stays.
Pop_KeepsKey(sd, key) ==
    IF sd.Values[key] = Absent THEN [sd |-> sd, val |-> Absent]
    ELSE [sd |-> [sd EXCEPT !.status = Modified], val |-> sd.Values[key]]

\* Mutant: Pop marks the session Modified whether or not the key exists.
Pop_AlwaysModified(sd, key) ==
    [sd |-> [sd EXCEPT !.Values[key] = Absent, !.status = Modified],
     val |-> sd.Values[key]]

\* Pop: [sd, val].
Pop(sd, key) ==
    IF sd.Values[key] = Absent THEN [sd |-> sd, val |-> Absent]
    ELSE [sd |-> [sd EXCEPT !.Values[key] = Absent, !.status = Modified],
          val |-> sd.Values[key]]

\* The put values whose Go type is string, and the zero value of string.
StringVals == {"alice"}
ZeroString == ""

\* PopString: Pop, then the type assertion val.(string).
PopString(sd, key) ==
    LET r == Pop(sd, key)
    IN  [sd |-> r.sd, val |-> IF r.val \in StringVals THEN r.val ELSE ZeroString]

Remove(sd, key) ==
    IF sd.Values[key] = Absent THEN sd
    ELSE [sd EXCEPT !.Values[key] = Absent, !.status = Modified]

\* Mutant: the old token's entry is left in the store.
RenewToken_KeepsOld(sd, st, t, newTok, deleteErr, genErr) ==
    IF deleteErr \/ genErr
    THEN [sd |-> sd, store |-> st, err |-> TRUE, minted |-> FALSE]
    ELSE [sd |-> [sd EXCEPT !.token = newTok, !.Deadline = t + Lifetime,
                            !.status = Modified],
          store |-> st, err |-> FALSE, minted |-> TRUE]

\* Mutant: the generated token is assigned before its error is looked at.
RenewToken_AssignsFirst(sd, st, t, newTok, deleteErr, genErr) ==
    IF deleteErr
    THEN [sd |-> sd, store |-> st, err |-> TRUE, minted |-> FALSE]
    ELSE IF genErr
    THEN [sd |-> [sd EXCEPT !.token = EmptyToken],
          store |-> StoreDelete(st, sd.token), err |-> TRUE, minted |-> FALSE]
    ELSE [sd |-> [sd EXCEPT !.token = newTok, !.Deadline = t + Lifetime,
                            !.status = Modified],
          store |-> StoreDelete(st, sd.token), err |-> FALSE, minted |-> TRUE]

\* RenewToken: [sd, store, err, minted].
RenewToken(sd, st, t, newTok, deleteErr, genErr) ==
    IF deleteErr
    THEN [sd |-> sd, store |-> st, err |-> TRUE, minted |-> FALSE]
    ELSE IF genErr
    THEN [sd |-> sd, store |-> StoreDelete(st, sd.token), err |-> TRUE,
          minted |-> FALSE]
    ELSE [sd |-> [sd EXCEPT !.token = newTok, !.Deadline = t + Lifetime,
                            !.status = Modified],
          store |-> StoreDelete(st, sd.token), err |-> FALSE, minted |-> TRUE]

Status(sd) == sd.status
Token(sd) == sd.token

\* Mutant: without a session in the context the operations get a new one.
getSessionDataFromContext_Creates(val) ==
    [ok |-> TRUE,
     sd |-> IF val = NoSD THEN newSessionData(Lifetime, StartTime) ELSE val]

\* getSessionDataFromContext: ok is false where the code panics.
getSessionDataFromContext(val) == [ok |-> val # NoSD, sd |-> val]

\* The operations that start with getSessionDataFromContext.
SessionOps == {"Put", "Get", "Pop", "Remove", "Exists", "Keys", "Commit",
               "Destroy", "RenewToken", "Status", "Token"}

\* Mutant: the value is added whether or not the header has it.
AddHeaderIfMissing_Always(values, value) == Append(values, value)

\* ------------------------------------------------- the cookie writer
AddHeaderIfMissing(values, value) ==
    IF \E i \in 1..Len(values) : values[i] = value THEN values
    ELSE Append(values, value)

SessionCookie(name, token, expiry, t, p) ==
    [Name    |-> name,
     Value   |-> token,
     Expires |-> IF expiry = ZeroTime THEN UnixOne
                 ELSE IF p THEN expiry + 1 ELSE ZeroTime,
     MaxAge  |-> IF expiry = ZeroTime THEN ClearMaxAge
                 ELSE IF p THEN (expiry - t) + 1 ELSE NoMaxAge]

WriteSessionCookie(h, name, token, expiry, t, p) ==
    [SetCookie    |-> Append(h.SetCookie,
                             SessionCookie(name, token, expiry, t, p)),
     CacheControl |-> AddHeaderIfMissing(h.CacheControl, CacheControlValue),
     Vary         |-> AddHeaderIfMissing(h.Vary, VaryValue)]

\* Mutant: the cookie is written although the Commit failed.
SaveFromMiddleware_CookieOnError(sd, st, h, name, t, idle, p, newTok, genErr, commitErr) ==
    LET c == Commit(sd, st, t, idle, newTok, genErr, commitErr)
    IN  IF Status(sd) = Modified
        THEN [sd |-> c.sd, store |-> c.store,
              header |-> WriteSessionCookie(h, name, c.token, c.expiry, t, p),
              err |-> c.err, minted |-> c.minted]
        ELSE IF Status(sd) = Destroyed
        THEN [sd |-> sd, store |-> st,
              header |-> WriteSessionCookie(h, name, EmptyToken, ZeroTime, t, p),
              err |-> FALSE, minted |-> FALSE]
        ELSE [sd |-> sd, store |-> st, header |-> h, err |-> FALSE,
              minted |-> FALSE]

\* Mutant: a destroyed session is saved without the clearing cookie.
SaveFromMiddleware_NoClear(sd, st, h, name, t, idle, p, newTok, genErr, commitErr) ==
    LET c == Commit(sd, st, t, idle, newTok, genErr, commitErr)
    IN  IF Status(sd) = Modified /\ ~c.err
        THEN [sd |-> c.sd, store |-> c.store,
              header |-> WriteSessionCookie(h, name, c.token, c.expiry, t, p),
              err |-> FALSE, minted |-> c.minted]
        ELSE IF Status(sd) = Modified
        THEN [sd |-> c.sd, store |-> c.store, header |-> h, err |-> TRUE,
              minted |-> c.minted]
        ELSE [sd |-> sd, store |-> st, header |-> h, err |-> FALSE,
              minted |-> FALSE]

\* SaveFromMiddleware: [sd, store, header, err, minted].
SaveFromMiddleware(sd, st, h, name, t, idle, p, newTok, genErr, commitErr) ==
    LET c == Commit(sd, st, t, idle, newTok, genErr, commitErr)
    IN  IF Status(sd) = Modified
        THEN IF c.err
             THEN [sd |-> c.sd, store |-> c.store, header |-> h, err |-> TRUE,
                   minted |-> c.minted]
             ELSE [sd |-> c.sd, store |-> c.store,
                   header |-> WriteSessionCookie(h, name, c.token, c.expiry, t, p),
                   err |-> FALSE, minted |-> c.minted]
        ELSE IF Status(sd) = Destroyed
        THEN [sd |-> sd, store |-> st,
              header |-> WriteSessionCookie(h, name, EmptyToken, ZeroTime, t, p),
              err |-> FALSE, minted |-> FALSE]
        ELSE [sd |-> sd, store |-> st, header |-> h, err |-> FALSE,
              minted |-> FALSE]

\* LoadFromMiddleware: the cookie's value, or "" without cookie, goes to Load.
LoadFromMiddleware(val, ck, st, t, idle, findErr, decodeErr) ==
    Load(val, ck, st, t, idle, findErr, decodeErr)

\* Mutant: the override loads and leaves the status alone.
MyLoadFromMiddleware_KeepsStatus(val, ck, st, t, idle, findErr, decodeErr) == Load(val, ck, st, t, idle, findErr, decodeErr)

\* The "always require a token" override of the load hook: as
\* LoadFromMiddleware, and a session without token is set Modified through
\* the accessors of the record Load returned.
MyLoadFromMiddleware(val, ck, st, t, idle, findErr, decodeErr) ==
    LET r == Load(val, ck, st, t, idle, findErr, decodeErr)
    IN  IF r.err THEN r
        ELSE IF r.sd.token = EmptyToken
        THEN [r EXCEPT !.sd = [r.sd EXCEPT !.status = Modified]]
        ELSE r

\* Mutant: a skipped request is loaded and saved like any other.
EnvelopeStart_LoadsAnyway(skip) == "load"

\* The closure's first statement: if config.Skipper(c) { return next(c) }.
EnvelopeStart(skip) == IF skip THEN "next" ELSE "load"

\* Mutant: the envelope saves after the handler.
EnvelopeNext_SaveLast(pos) ==
    CASE pos = "load" -> "next"
      [] pos = "next" -> "save"
      [] pos = "save" -> "done"

\* The closure SessionsWithConfig returns: the position after each step.
EnvelopeNext(pos) ==
    CASE pos = "load" -> "save"
      [] pos = "save" -> "next"
      [] pos = "next" -> "done"

\* ------------------------------------------------- two managers
\* Two managers on one request, as in TestDualSessions...: each has its own
\* contextKey, cookie name and Store; a manager is named by its cookie name.
Managers == {"session1", "session2"}

\* Mutant: every manager gets the same context key.
contextKey_Same(m) == "session.1"

\* The contextKey NewSession gives a manager: generateContextKey counts up.
contextKey(m) == IF m = "session1" THEN "session.1" ELSE "session.2"

ContextKeys == {"session.1", "session.2"}
NoContext == [k \in ContextKeys |-> NoSD]
NoStores == [m \in Managers |-> [t \in StoreTokens |-> NoEntry]]

\* ------------------------------------------------- sessioncache.go
MaxThreads == 2
MaxCalls == 3

\* The keys managers are registered under (cookie names) and the
\* *SessionsConfig pointers; NilConfig is a nil *SessionsConfig.
RegKeys == {"session", "session1"}
Configs == {"config1", "config2"}
NilConfig == "nil config"

\* Errors of RegisterWithErrorChecks.
NoError == "nil error"
ErrNilInstance == "instance is nil"
ErrAlreadyFound == "instance already found in cache"

\* scache == nil, and the sessionCache objects SessionCache can allocate: one
\* per thread that finds scache nil.
NoCache == 0
Threads == 1..MaxThreads
CacheIds == 1..MaxThreads
NoThread == 0

\* make(map[string]*SessionsConfig), and a sessionCache object: its map and
\* the state of its sync.RWMutex.
NoInstances == [k \in RegKeys |-> Absent]
NotAllocated == [instances |-> NoInstances, readers |-> {}, writer |-> NoThread,
                 allocated |-> FALSE]
NewCache == [NotAllocated EXCEPT !.allocated = TRUE]

\* SessionCache() called by one thread alone: the object scache points to,
\* allocated first when scache is nil.
SessionCache(sc, cs) ==
    IF sc = NoCache
    THEN LET id == CHOOSE i \in CacheIds :
                     /\ ~cs[i].allocated
                     /\ \A j \in CacheIds : ~cs[j].allocated => i <= j
         IN  [scache |-> id, caches |-> [cs EXCEPT ![id] = NewCache], sc |-> id]
    ELSE [scache |-> sc, caches |-> cs, sc |-> sc]

\* Mutant: an entry the map already holds is kept.
CacheRegister_KeepsExisting(instances, key, instance) ==
    IF instance = NilConfig \/ instances[key] # Absent THEN instances
    ELSE [instances EXCEPT ![key] = instance]

\* Register: the body between Lock and Unlock.
CacheRegister(instances, key, instance) ==
    IF instance = NilConfig THEN instances
    ELSE [instances EXCEPT ![key] = instance]

\* Mutant: a duplicate key is reported and overwritten all the same.
CacheRegisterWithErrorChecks_Overwrites(instances, key, instance) ==
    IF instance = NilConfig
    THEN [instances |-> instances, err |-> ErrNilInstance]
    ELSE IF instances[key] # Absent
    THEN [instances |-> [instances EXCEPT ![key] = instance],
          err |-> ErrAlreadyFound]
    ELSE [instances |-> [instances EXCEPT ![key] = instance], err |-> NoError]

\* RegisterWithErrorChecks: the body between Lock and Unlock.
CacheRegisterWithErrorChecks(instances, key, instance) ==
    IF instance = NilConfig
    THEN [instances |-> instances, err |-> ErrNilInstance]
    ELSE IF instances[key] # Absent
    THEN [instances |-> instances, err |-> ErrAlreadyFound]
    ELSE [instances |-> [instances EXCEPT ![key] = instance], err |-> NoError]

\* Get: nil for a key the map does not hold.
CacheGet(instances, key) ==
    IF instances[key] = Absent THEN NilConfig ELSE instances[key]

\* Length: len(sc.instances).
CacheLength(instances) == Cardinality({k \in RegKeys : instances[k] # Absent})

\* Mutant: Remove looks the key up and deletes nothing.
CacheRemove_KeepsEntry(instances, key) == instances

\* Remove: the body between RLock and RUnlock.
CacheRemove(instances, key) ==
    IF instances[key] = Absent THEN instances
    ELSE [instances EXCEPT ![key] = Absent]

\* No thread is in a call.
NoLocals == [op |-> "none", key |-> "session", instance |-> NilConfig,
             sc |-> NoCache, v |-> 0]

InitProcess ==
    /\ contextKeyID = 0
    /\ scache = NoCache
    /\ caches = [i \in CacheIds |-> NotAllocated]
    /\ live = {}
    /\ mu = NoThread
    /\ tpc = [t \in Threads |-> "idle"]
    /\ tloc = [t \in Threads |-> NoLocals]
    /\ hist = <<>>

\* ------------------------------------------------- SessionsWithConfig
\* &DefaultSessionsConfig, the sessions a config can carry (the cookie name
\* of its manager and whether its Initialize returns an error), the default
\* one, and a config whose Session field is nil.
DefaultConfig == "DefaultSessionsConfig"
AllConfigs == Configs \cup {DefaultConfig}
ConfigSessions == [name : RegKeys, initFails : BOOLEAN]
DefaultSession == [name |-> CookieName, initFails |-> FALSE]
NilSession == [nil |-> TRUE]

\* Mutant: the config is registered before Initialize is called.
SessionsWithConfig_RegistersFirst(sc, cs, config, session, doCache) ==
    LET cfg == IF config = NilConfig THEN DefaultConfig ELSE config
        ses == IF config = NilConfig \/ session = NilSession
               THEN DefaultSession ELSE session
        dc  == IF config = NilConfig THEN TRUE ELSE doCache
        c   == SessionCache(sc, cs)
        r   == CacheRegisterWithErrorChecks(c.caches[c.sc].instances,
                                            ses.name, cfg)
    IN  IF ~dc
        THEN [scache |-> sc, caches |-> cs, panic |-> ses.initFails,
              name |-> ses.name, config |-> cfg]
        ELSE [scache |-> c.scache,
              caches |-> [c.caches EXCEPT ![c.sc].instances = r.instances],
              panic |-> ses.initFails \/ r.err # NoError,
              name |-> ses.name, config |-> cfg]

\* SessionsWithConfig up to the closure it returns: the defaults for a nil
\* config and a nil Session, Initialize, and the registration under the cookie
\* name when DoCache is set.  panic: the call panicked.
SessionsWithConfig(sc, cs, config, session, doCache) ==
    LET cfg == IF config = NilConfig THEN DefaultConfig ELSE config
        ses == IF config = NilConfig \/ session = NilSession
               THEN DefaultSession ELSE session
        dc  == IF config = NilConfig THEN TRUE ELSE doCache
        c   == SessionCache(sc, cs)
        r   == CacheRegisterWithErrorChecks(c.caches[c.sc].instances,
                                            ses.name, cfg)
    IN  IF ses.initFails
        THEN [scache |-> sc, caches |-> cs, panic |-> TRUE,
              name |-> ses.name, config |-> cfg]
        ELSE IF ~dc
        THEN [scache |-> sc, caches |-> cs, panic |-> FALSE,
              name |-> ses.name, config |-> cfg]
        ELSE [scache |-> c.scache,
              caches |-> [c.caches EXCEPT ![c.sc].instances = r.instances],
              panic |-> r.err # NoError,
              name |-> ses.name, config |-> cfg]

\* ------------------------------------------------------------- actions
EmptyHeader == [SetCookie |-> <<>>, CacheControl |-> <<>>, Vary |-> <<>>]

Result(op, err, val) == [op |-> op, err |-> err, val |-> val]

\* What a client can send: no cookie, a token it was given, one it made up.
ClientTokens == {EmptyToken, Forged} \cup 1..(nextToken - 1)

Skipped == Len(steps) > 0 /\ steps[1] = "skip"

\* The session an operation works on: c.Get(contextKey) as a *sessionData.
Cur == getSessionDataFromContext(scratch).sd
InHandler ==
    pc = "next" /\ getSessionDataFromContext(scratch).ok /\ nops < MaxOps

Init ==
    /\ store = [t \in StoreTokens |-> NoEntry]
    /\ scratch = NoSD
    /\ cookie = EmptyToken
    /\ header = EmptyHeader
    /\ pc = "idle"
    /\ now = StartTime
    /\ nextToken = 1
    /\ idleTimeout \in {0, IdleT}
    /\ persist \in BOOLEAN
    /\ nreq = 0
    /\ nops = 0
    /\ steps = <<>>
    /\ written = {}
    /\ renewed = FALSE
    /\ committed = [t \in StoreTokens |-> EmptyValues]
    /\ destroyed = {}
    /\ last = Result("init", FALSE, Absent)
    /\ ctx = NoContext
    /\ stores = NoStores
    /\ override = FALSE
    /\ InitProcess

\* A request arrives: a new echo.Context and response recorder.
StartRequest ==
    /\ pc \in {"idle", "done", "error", "panic"}
    /\ nreq < MaxRequests
    /\ \E ck \in ClientTokens : cookie' = ck
    /\ scratch' = NoSD
    /\ header' = EmptyHeader
    /\ pc' = "skipper"
    /\ nreq' = nreq + 1
    /\ steps' = <<>>
    /\ written' = {}
    /\ renewed' = FALSE
    /\ destroyed' = {}
    /\ last' = Result("StartRequest", FALSE, Absent)
    /\ UNCHANGED <<store, now, nextToken, idleTimeout, persist, nops,
                   committed,
                   dual, override, process>>

\* config.Skipper(c): true sends the request straight to next(c).
Skipper ==
    /\ pc = "skipper"
    /\ \E skip \in BOOLEAN :
         /\ pc' = EnvelopeStart(skip)
         /\ steps' = IF skip THEN <<"skip">> ELSE <<>>
    /\ last' = Result("Skipper", FALSE, Absent)
    /\ UNCHANGED <<store, scratch, cookie, header, now, nextToken, idleTimeout,
                   persist, nreq, nops, written, renewed,
                   committed,
                   destroyed, dual, override, process>>

\* config.Session.LoadCheck(c)
LoadCheck ==
    /\ pc = "load"
    /\ \E findErr \in BOOLEAN, decodeErr \in BOOLEAN :
         LET r == IF override
                  THEN MyLoadFromMiddleware(scratch, cookie, store, now,
                                            idleTimeout, findErr, decodeErr)
                  ELSE LoadFromMiddleware(scratch, cookie, store, now,
                                          idleTimeout, findErr, decodeErr)
             fault == IF scratch # NoSD \/ cookie = EmptyToken THEN Absent
                      ELSE IF findErr THEN FindFailed
                      ELSE IF StoreFind(store, cookie, now).found /\ decodeErr
                      THEN DecodeFailed ELSE Absent
         IN  /\ scratch' = r.sd
             /\ pc' = IF r.err THEN "error" ELSE EnvelopeNext("load")
             /\ last' = Result("Load", r.err, fault)
    /\ steps' = Append(steps, "LoadCheck")
    /\ UNCHANGED <<store, cookie, header, now, nextToken, idleTimeout, persist,
                   nreq, nops, written, renewed,
                   committed,
                   destroyed, dual, override, process>>

\* What a save through SaveFromMiddleware does to the state.
DoSave(op) ==
    \E genErr \in BOOLEAN, commitErr \in BOOLEAN :
       LET r == SaveFromMiddleware(Cur, store, header, CookieName, now,
                                   idleTimeout, persist, nextToken, genErr,
                                   commitErr)
           wrote == Status(Cur) = Modified /\ ~r.err
       IN  /\ r.minted => nextToken <= MaxTokens
           /\ scratch' = r.sd
           /\ store' = r.store
           /\ header' = r.header
           /\ nextToken' = IF r.minted THEN nextToken + 1 ELSE nextToken
           /\ written' = IF wrote THEN written \cup {r.sd.token} ELSE written
           /\ renewed' = IF wrote THEN FALSE ELSE renewed
           /\ committed' = IF wrote
                            THEN [committed EXCEPT ![r.sd.token] = Cur.Values]
                            ELSE committed
           /\ last' = Result(op, r.err, Absent)

\* config.Session.SaveCheck(c)
SaveCheck ==
    /\ pc = "save"
    /\ DoSave("SaveCheck")
    /\ pc' = IF last'.err THEN "error" ELSE EnvelopeNext("save")
    /\ steps' = Append(steps, "SaveCheck")
    /\ UNCHANGED <<cookie, now, idleTimeout, persist, nreq, nops,
                   destroyed, dual, override, process>>

\* ---- the handler, next(c): any sequence of manager operations
HandlerPut ==
    /\ InHandler
    /\ \E key \in Keys, val \in PutVals : scratch' = Put(Cur, key, val)
    /\ nops' = nops + 1
    /\ last' = Result("Put", FALSE, Absent)
    /\ UNCHANGED <<store, cookie, header, pc, now, nextToken, idleTimeout,
                   persist, nreq, steps, written, renewed,
                   committed,
                   destroyed, dual, override, process>>

HandlerGet ==
    /\ InHandler
    /\ \E key \in Keys :
         last' = Result("Get", FALSE, Get(Cur, key))
    /\ nops' = nops + 1
    /\ UNCHANGED <<store, scratch, cookie, header, pc, now, nextToken,
                   idleTimeout, persist, nreq, steps, written, renewed,
                   committed,
                   destroyed, dual, override, process>>

HandlerPop ==
    /\ InHandler
    /\ \E key \in Keys :
         /\ scratch' = Pop(Cur, key).sd
         /\ last' = Result("Pop", FALSE, Pop(Cur, key).val)
    /\ nops' = nops + 1
    /\ UNCHANGED <<store, cookie, header, pc, now, nextToken, idleTimeout,
                   persist, nreq, steps, written, renewed,
                   committed,
                   destroyed, dual, override, process>>

HandlerPopString ==
    /\ InHandler
    /\ \E key \in Keys :
         /\ scratch' = PopString(Cur, key).sd
         /\ last' = Result("PopString", FALSE, PopString(Cur, key).val)
    /\ nops' = nops + 1
    /\ UNCHANGED <<store, cookie, header, pc, now, nextToken, idleTimeout,
                   persist, nreq, steps, written, renewed,
                   committed,
                   destroyed, dual, override, process>>

HandlerRemove ==
    /\ InHandler
    /\ \E key \in Keys : scratch' = Remove(Cur, key)
    /\ nops' = nops + 1
    /\ last' = Result("Remove", FALSE, Absent)
    /\ UNCHANGED <<store, cookie, header, pc, now, nextToken, idleTimeout,
                   persist, nreq, steps, written, renewed,
                   committed,
                   destroyed, dual, override, process>>

HandlerCommit ==
    /\ InHandler
    /\ \E genErr \in BOOLEAN, commitErr \in BOOLEAN :
         LET r == Commit(Cur, store, now, idleTimeout, nextToken, genErr,
                         commitErr)
         IN  /\ r.minted => nextToken <= MaxTokens
             /\ scratch' = r.sd
             /\ store' = r.store
             /\ nextToken' = IF r.minted THEN nextToken + 1 ELSE nextToken
             /\ written' = IF r.err THEN written ELSE written \cup {r.token}
             /\ renewed' = IF r.err THEN renewed ELSE FALSE
             /\ committed' = IF r.err THEN committed
                              ELSE [committed EXCEPT ![r.token] = Cur.Values]
             /\ last' = Result("Commit", r.err, Absent)
    /\ nops' = nops + 1
    /\ UNCHANGED <<cookie, header, pc, now, idleTimeout, persist, nreq, steps,
                   destroyed, dual, override, process>>

HandlerDestroy ==
    /\ InHandler
    /\ \E deleteErr \in BOOLEAN :
         LET r == Destroy(Cur, store, now, deleteErr)
         IN  /\ scratch' = r.sd
             /\ store' = r.store
             /\ written' = IF r.err THEN written ELSE {}
             /\ renewed' = IF r.err THEN renewed ELSE FALSE
             /\ destroyed' = IF r.err THEN destroyed
                              ELSE destroyed \cup ({Cur.token} \ {EmptyToken})
             /\ last' = Result("Destroy", r.err, Absent)
    /\ nops' = nops + 1
    /\ UNCHANGED <<cookie, header, pc, now, nextToken, idleTimeout, persist,
                   nreq, steps, committed,
                   dual, override, process>>

HandlerRenewToken ==
    /\ InHandler
    /\ nextToken <= MaxTokens
    /\ \E deleteErr \in BOOLEAN, genErr \in BOOLEAN :
         LET r == RenewToken(Cur, store, now, nextToken, deleteErr, genErr)
         IN  /\ scratch' = r.sd
             /\ store' = r.store
             /\ nextToken' = IF r.minted THEN nextToken + 1 ELSE nextToken
             /\ written' = IF r.err THEN written ELSE {}
             /\ renewed' = IF r.err THEN renewed ELSE TRUE
             /\ last' = Result("RenewToken", r.err, Absent)
    /\ nops' = nops + 1
    /\ UNCHANGED <<cookie, header, pc, now, idleTimeout, persist, nreq, steps,
                   committed,
                   destroyed, dual, override, process>>

\* The handler saves by itself, as TestMiddlewareDefault's does.
HandlerSave ==
    /\ InHandler
    /\ DoSave("Save")
    /\ nops' = nops + 1
    /\ UNCHANGED <<cookie, pc, now, idleTimeout, persist, nreq, steps,
                   destroyed, dual, override, process>>

\* A second Load in the same request, with any token.
HandlerLoad ==
    /\ InHandler
    /\ \E token \in ClientTokens, findErr \in BOOLEAN, decodeErr \in BOOLEAN :
         LET r == Load(scratch, token, store, now, idleTimeout, findErr,
                       decodeErr)
         IN  /\ scratch' = r.sd
             /\ last' = Result("Load", r.err,
                               IF scratch # NoSD /\ token # scratch.token
                                    /\ StoreFind(store, token, now).found
                               THEN OtherSession ELSE Absent)
    /\ nops' = nops + 1
    /\ UNCHANGED <<store, cookie, header, pc, now, nextToken, idleTimeout,
                   persist, nreq, steps, written, renewed,
                   committed,
                   destroyed, dual, override, process>>

\* An operation called without session in the context (the request was
\* skipped, so nothing was loaded) panics in getSessionDataFromContext.
HandlerPanic ==
    /\ pc = "next"
    /\ ~getSessionDataFromContext(scratch).ok
    /\ nops < MaxOps
    /\ \E op \in SessionOps : last' = Result("panic", TRUE, op)
    /\ pc' = "panic"
    /\ nops' = nops + 1
    /\ UNCHANGED <<store, scratch, cookie, header, now, nextToken, idleTimeout,
                   persist, nreq, steps, written, renewed, committed,
                   destroyed, dual, override, process>>

\* next(c) returns.
Return ==
    /\ pc = "next"
    /\ pc' = IF Skipped THEN "done" ELSE EnvelopeNext("next")
    /\ steps' = Append(steps, "next")
    /\ last' = Result("Return", FALSE, Absent)
    /\ UNCHANGED <<store, scratch, cookie, header, now, nextToken, idleTimeout,
                   persist, nreq, nops, written, renewed,
                   committed,
                   destroyed, dual, override, process>>

\* Time passes.
Tick ==
    /\ pc \in {"idle", "done", "error", "panic"}
    /\ now < MaxTime
    /\ now' = now + 1
    /\ last' = Result("Tick", FALSE, Absent)
    /\ UNCHANGED <<store, scratch, cookie, header, pc, nextToken, idleTimeout,
                   persist, nreq, nops, steps, written, renewed,
                   committed,
                   destroyed, dual, override, process>>

Next ==
    \/ StartRequest
    \/ Skipper
    \/ LoadCheck
    \/ SaveCheck
    \/ HandlerPut
    \/ HandlerGet
    \/ HandlerPop
    \/ HandlerPopString
    \/ HandlerRemove
    \/ HandlerCommit
    \/ HandlerDestroy
    \/ HandlerRenewToken
    \/ HandlerSave
    \/ HandlerLoad
    \/ HandlerPanic
    \/ Return
    \/ Tick

Spec == Init /\ [][Next]_vars

\* A deployment that has served a client before: the store holds the session
\* an earlier request committed at StartTime, and the client holds its token.
\* The cookie is persistent, as NewSession sets it.
StoredToken == 1
StoredValues == [EmptyValues EXCEPT !["user"] = "alice"]

InitReturning ==
    /\ idleTimeout \in {0, IdleT}
    /\ persist = TRUE
    /\ LET sd == [Put(newSessionData(Lifetime, StartTime), "user", "alice")
                    EXCEPT !.token = StoredToken]
           r  == Commit(sd, [t \in StoreTokens |-> NoEntry], StartTime,
                        idleTimeout, StoredToken, FALSE, FALSE)
       IN  /\ store = r.store
           /\ committed = [[t \in StoreTokens |-> EmptyValues]
                             EXCEPT ![StoredToken] = StoredValues]
    /\ nextToken = StoredToken + 1
    /\ scratch = NoSD
    /\ cookie = EmptyToken
    /\ header = EmptyHeader
    /\ pc = "idle"
    /\ now = StartTime
    /\ nreq = 0
    /\ nops = 0
    /\ steps = <<>>
    /\ written = {}
    /\ renewed = FALSE
    /\ destroyed = {}
    /\ last = Result("init", FALSE, Absent)
    /\ ctx = NoContext
    /\ stores = NoStores
    /\ override = FALSE
    /\ InitProcess

SpecReturning == InitReturning /\ [][Next]_vars

\* A manager whose load hook is the "always require a token" override, as
\* the one TestLoadFromMiddlewareOverride constructs.  The process has served
\* a client before (the store holds that session) and serves one more
\* request, at once or after the stored session has expired.
InitOverride ==
    /\ idleTimeout \in {0, IdleT}
    /\ persist = TRUE
    /\ LET sd == [Put(newSessionData(Lifetime, StartTime), "user", "alice")
                    EXCEPT !.token = StoredToken]
           r  == Commit(sd, [t \in StoreTokens |-> NoEntry], StartTime,
                        idleTimeout, StoredToken, FALSE, FALSE)
       IN  /\ store = r.store
           /\ committed = [[t \in StoreTokens |-> EmptyValues]
                             EXCEPT ![StoredToken] = StoredValues]
    /\ nextToken = StoredToken + 1
    /\ scratch = NoSD
    /\ cookie = EmptyToken
    /\ header = EmptyHeader
    /\ pc = "idle"
    /\ now \in StartTime..MaxTime
    /\ nreq = MaxRequests - 1
    /\ nops = 0
    /\ steps = <<>>
    /\ written = {}
    /\ renewed = FALSE
    /\ destroyed = {}
    /\ last = Result("init", FALSE, Absent)
    /\ ctx = NoContext
    /\ stores = NoStores
    /\ override = TRUE
    /\ InitProcess

SpecOverride == InitOverride /\ [][Next]_vars

\* ------------------------------------------------- two managers, one request
DualMaxOps == 5

\* A response header the application has already written to.
PresetHeader ==
    [SetCookie |-> <<>>, CacheControl |-> <<"private">>,
     Vary |-> <<"Accept-Encoding">>]

\* What the two-manager request does not use.
single == <<store, scratch, cookie, pc, now, idleTimeout, persist, nreq,
            steps, written, renewed, committed, destroyed, override, process>>

InitDual ==
    /\ store = [t \in StoreTokens |-> NoEntry]
    /\ scratch = NoSD
    /\ cookie = EmptyToken
    /\ pc = "dual"
    /\ now = StartTime
    /\ idleTimeout \in {0, IdleT}
    /\ persist = TRUE
    /\ nreq = 1
    /\ steps = <<>>
    /\ written = {}
    /\ renewed = FALSE
    /\ committed = [t \in StoreTokens |-> EmptyValues]
    /\ destroyed = {}
    /\ header \in {EmptyHeader, PresetHeader}
    /\ nextToken = 1
    /\ nops = 0
    /\ last = Result("init", FALSE, Absent)
    /\ ctx = NoContext
    /\ stores = NoStores
    /\ override = FALSE
    /\ InitProcess

\* Manager m can work on its session.
DualReady(m) ==
    getSessionDataFromContext(ctx[contextKey(m)]).ok /\ nops < DualMaxOps

\* m's LoadCheck on a request without cookies.
DualLoad(m) ==
    /\ ctx[contextKey(m)] = NoSD
    /\ LET r == LoadFromMiddleware(ctx[contextKey(m)], EmptyToken, stores[m], now,
                                   idleTimeout, FALSE, FALSE)
       IN  ctx' = [ctx EXCEPT ![contextKey(m)] = r.sd]
    /\ last' = Result("Load", FALSE, m)
    /\ UNCHANGED <<single, stores, header, nextToken, nops>>

DualPut(m) ==
    /\ DualReady(m)
    /\ \E val \in {"alice", "&obj"} :
          ctx' = [ctx EXCEPT ![contextKey(m)] = Put(ctx[contextKey(m)], "user", val)]
    /\ nops' = nops + 1
    /\ last' = Result("Put", FALSE, m)
    /\ UNCHANGED <<single, stores, header, nextToken>>

DualPop(m) ==
    /\ DualReady(m)
    /\ ctx' = [ctx EXCEPT ![contextKey(m)] = Pop(ctx[contextKey(m)], "user").sd]
    /\ nops' = nops + 1
    /\ last' = Result("Pop", FALSE, m)
    /\ UNCHANGED <<single, stores, header, nextToken>>

DualRemove(m) ==
    /\ DualReady(m)
    /\ ctx' = [ctx EXCEPT ![contextKey(m)] = Remove(ctx[contextKey(m)], "user")]
    /\ nops' = nops + 1
    /\ last' = Result("Remove", FALSE, m)
    /\ UNCHANGED <<single, stores, header, nextToken>>

DualCommit(m) ==
    /\ DualReady(m)
    /\ \E commitErr \in BOOLEAN :
         LET r == Commit(ctx[contextKey(m)], stores[m], now, idleTimeout, nextToken,
                         FALSE, commitErr)
         IN  /\ r.minted => nextToken <= MaxTokens
             /\ ctx' = [ctx EXCEPT ![contextKey(m)] = r.sd]
             /\ stores' = [stores EXCEPT ![m] = r.store]
             /\ nextToken' = IF r.minted THEN nextToken + 1 ELSE nextToken
             /\ last' = Result("Commit", r.err, m)
    /\ nops' = nops + 1
    /\ UNCHANGED <<single, header>>

DualDestroy(m) ==
    /\ DualReady(m)
    /\ \E deleteErr \in BOOLEAN :
         LET r == Destroy(ctx[contextKey(m)], stores[m], now, deleteErr)
         IN  /\ ctx' = [ctx EXCEPT ![contextKey(m)] = r.sd]
             /\ stores' = [stores EXCEPT ![m] = r.store]
             /\ last' = Result("Destroy", r.err, m)
    /\ nops' = nops + 1
    /\ UNCHANGED <<single, header, nextToken>>

DualRenewToken(m) ==
    /\ DualReady(m)
    /\ nextToken <= MaxTokens
    /\ \E genErr \in BOOLEAN :
         LET r == RenewToken(ctx[contextKey(m)], stores[m], now, nextToken, FALSE, genErr)
         IN  /\ ctx' = [ctx EXCEPT ![contextKey(m)] = r.sd]
             /\ stores' = [stores EXCEPT ![m] = r.store]
             /\ nextToken' = IF r.minted THEN nextToken + 1 ELSE nextToken
             /\ last' = Result("RenewToken", r.err, m)
    /\ nops' = nops + 1
    /\ UNCHANGED <<single, header>>

\* m's SaveCheck, or a save its handler calls.
DualSave(m) ==
    /\ DualReady(m)
    /\ \E commitErr \in BOOLEAN :
         LET r == SaveFromMiddleware(ctx[contextKey(m)], stores[m], header, m, now,
                                     idleTimeout, persist, nextToken, FALSE,
                                     commitErr)
         IN  /\ r.minted => nextToken <= MaxTokens
             /\ ctx' = [ctx EXCEPT ![contextKey(m)] = r.sd]
             /\ stores' = [stores EXCEPT ![m] = r.store]
             /\ header' = r.header
             /\ nextToken' = IF r.minted THEN nextToken + 1 ELSE nextToken
             /\ last' = Result("Save", r.err, m)
    /\ nops' = nops + 1
    /\ UNCHANGED single

NextDual ==
    \/ \E m \in Managers : DualLoad(m)
    \/ \E m \in Managers : DualPut(m)
    \/ \E m \in Managers : DualPop(m)
    \/ \E m \in Managers : DualRemove(m)
    \/ \E m \in Managers : DualCommit(m)
    \/ \E m \in Managers : DualDestroy(m)
    \/ \E m \in Managers : DualRenewToken(m)
    \/ \E m \in Managers : DualSave(m)

SpecDual == InitDual /\ [][NextDual]_vars

\* ------------------------------------------------- the registry, one caller
\* The process at start-up and in the tests: one thread registers, looks up
\* and removes configs, and constructs middlewares.  Each call runs from its
\* Lock to its Unlock without another thread in between.

\* A completed call: its arguments, what it returned, and old, the entry the
\* key had when it was called.
Call(op, key, arg, ret, old) ==
    [op |-> op, key |-> key, arg |-> arg, ret |-> ret, old |-> old]

\* The map of the object scache points to; the empty map before there is one.
Instances == IF scache = NoCache THEN NoInstances ELSE caches[scache].instances

\* What the one-caller registry does not use.
unregistered == <<store, scratch, cookie, header, pc, now, nextToken,
                  idleTimeout, persist, nreq, nops, steps, written, renewed,
                  committed, destroyed, ctx, stores, override, contextKeyID,
                  mu, tpc, tloc, hist>>

InitRegistry ==
    /\ store = [t \in StoreTokens |-> NoEntry]
    /\ scratch = NoSD
    /\ cookie = EmptyToken
    /\ header = EmptyHeader
    /\ pc = "registry"
    /\ now = StartTime
    /\ nextToken = 1
    /\ idleTimeout = 0
    /\ persist = TRUE
    /\ nreq = 0
    /\ nops = 0
    /\ steps = <<>>
    /\ written = {}
    /\ renewed = FALSE
    /\ committed = [t \in StoreTokens |-> EmptyValues]
    /\ destroyed = {}
    /\ last = Call("init", CookieName, NilConfig, NoError, Absent)
    /\ ctx = NoContext
    /\ stores = NoStores
    /\ override = FALSE
    /\ InitProcess

\* SessionCache().Register(key, instance)
DoRegister ==
    /\ pc = "registry"
    /\ \E key \in RegKeys, instance \in AllConfigs \cup {NilConfig} :
         LET c == SessionCache(scache, caches)
         IN  /\ scache' = c.scache
             /\ caches' = [c.caches EXCEPT ![c.sc].instances =
                              CacheRegister(@, key, instance)]
             /\ live' = IF instance = NilConfig THEN live ELSE live \cup {key}
             /\ last' = Call("Register", key, instance, NoError,
                             c.caches[c.sc].instances[key])
    /\ UNCHANGED unregistered

\* SessionCache().RegisterWithErrorChecks(key, instance)
DoRegisterWithErrorChecks ==
    /\ pc = "registry"
    /\ \E key \in RegKeys, instance \in AllConfigs \cup {NilConfig} :
         LET c == SessionCache(scache, caches)
             r == CacheRegisterWithErrorChecks(c.caches[c.sc].instances, key,
                                               instance)
         IN  /\ scache' = c.scache
             /\ caches' = [c.caches EXCEPT ![c.sc].instances = r.instances]
             /\ live' = IF r.err = NoError THEN live \cup {key} ELSE live
             /\ last' = Call("RegisterWithErrorChecks", key, instance, r.err,
                             c.caches[c.sc].instances[key])
    /\ UNCHANGED unregistered

\* SessionCache().Get(key)
DoGet ==
    /\ pc = "registry"
    /\ \E key \in RegKeys :
         LET c == SessionCache(scache, caches)
         IN  /\ scache' = c.scache
             /\ caches' = c.caches
             /\ last' = Call("Get", key, NilConfig,
                             CacheGet(c.caches[c.sc].instances, key),
                             c.caches[c.sc].instances[key])
    /\ UNCHANGED <<unregistered, live>>

\* SessionCache().Length()
DoLength ==
    /\ pc = "registry"
    /\ LET c == SessionCache(scache, caches)
       IN  /\ scache' = c.scache
           /\ caches' = c.caches
           /\ last' = Call("Length", CookieName, NilConfig,
                           CacheLength(c.caches[c.sc].instances),
                           c.caches[c.sc].instances[CookieName])
    /\ UNCHANGED <<unregistered, live>>

\* SessionCache().Remove(key)
DoRemove ==
    /\ pc = "registry"
    /\ \E key \in RegKeys :
         LET c == SessionCache(scache, caches)
         IN  /\ scache' = c.scache
             /\ caches' = [c.caches EXCEPT ![c.sc].instances =
                              CacheRemove(@, key)]
             /\ live' = live \ {key}
             /\ last' = Call("Remove", key, NilConfig, NoError,
                             c.caches[c.sc].instances[key])
    /\ UNCHANGED unregistered

\* SessionsWithConfig(config): a middleware is constructed.
DoSessionsWithConfig ==
    /\ pc = "registry"
    /\ \E config \in Configs \cup {NilConfig},
          session \in ConfigSessions \cup {NilSession}, doCache \in BOOLEAN :
         LET r == SessionsWithConfig(scache, caches, config, session, doCache)
         IN  /\ scache' = r.scache
             /\ caches' = r.caches
             /\ live' = IF ~r.panic /\ (doCache \/ config = NilConfig)
                        THEN live \cup {r.name} ELSE live
             /\ last' = Call("SessionsWithConfig", r.name, r.config,
                             [panic |-> r.panic,
                              DoCache |-> doCache \/ config = NilConfig,
                              initFails |-> config # NilConfig
                                            /\ session # NilSession
                                            /\ session.initFails],
                             Instances[r.name])
    /\ UNCHANGED unregistered

NextRegistry ==
    \/ DoRegister
    \/ DoRegisterWithErrorChecks
    \/ DoGet
    \/ DoLength
    \/ DoRemove
    \/ DoSessionsWithConfig

SpecRegistry == InitRegistry /\ [][NextRegistry]_vars


\* ------------------------------------------------- the process, many threads
\* Threads of one process construct managers (NewSession) and use the
\* registry (SessionCache() and a method of what it returns) at the same time.
\* A step is one access to a package variable or to the map, or one lock
\* operation; the scheduler interleaves the threads' steps freely.
ThreadOps == {"NewSession", "SessionCache", "Register",
              "RegisterWithErrorChecks", "Get", "Length", "Remove"}
LockingOps == {"Register", "RegisterWithErrorChecks"}
RLockingOps == {"Get", "Length", "Remove"}
MapWritingOps == {"Register", "RegisterWithErrorChecks", "Remove"}

\* The positions between a method's lock and its unlock.
InLock == {"body", "delete", "unlock"}

\* A completed call: NewSession's contextKey number, or the sessionCache a
\* registry call worked on.
Done(t, op, val) == [t |-> t, op |-> op, val |-> val]

\* What the threads do not use.
unthreaded == <<store, scratch, cookie, header, pc, now, nextToken,
                idleTimeout, persist, nreq, nops, steps, written, renewed,
                committed, destroyed, ctx, stores, override, live, mu>>

InitThreads ==
    /\ store = [t \in StoreTokens |-> NoEntry]
    /\ scratch = NoSD
    /\ cookie = EmptyToken
    /\ header = EmptyHeader
    /\ pc = "threads"
    /\ now = StartTime
    /\ nextToken = 1
    /\ idleTimeout = 0
    /\ persist = TRUE
    /\ nreq = 0
    /\ nops = 0
    /\ steps = <<>>
    /\ written = {}
    /\ renewed = FALSE
    /\ committed = [t \in StoreTokens |-> EmptyValues]
    /\ destroyed = {}
    /\ last = Done(NoThread, "init", 0)
    /\ ctx = NoContext
    /\ stores = NoStores
    /\ override = FALSE
    /\ InitProcess

\* Thread t finishes its call.
Finish(t, val) ==
    /\ tpc' = [tpc EXCEPT ![t] = "idle"]
    /\ hist' = Append(hist, Done(t, tloc[t].op, val))
    /\ last' = Done(t, tloc[t].op, val)

Goto(t, pos) == tpc' = [tpc EXCEPT ![t] = pos]

\* Thread t calls NewSession or a method of the registry.
ThreadCall(t) ==
    /\ pc = "threads"
    /\ tpc[t] = "idle"
    /\ Len(hist) + Cardinality({u \in Threads : tpc[u] # "idle"}) < MaxCalls
    /\ \E op \in ThreadOps, instance \in {"config1", NilConfig} :
         /\ op \notin {"Register", "RegisterWithErrorChecks"} =>
              instance = NilConfig
         /\ tloc' = [tloc EXCEPT ![t] = [NoLocals EXCEPT !.op = op,
                                             !.instance = instance]]
         /\ Goto(t, IF op = "NewSession" THEN "gck_read" ELSE "sc_check")
    /\ last' = Done(t, "call", 0)
    /\ UNCHANGED <<unthreaded, contextKeyID, scache, caches, hist>>

\* generateContextKey: contextKeyID = contextKeyID + 1, the read ...
GckRead(t) ==
    /\ tpc[t] = "gck_read"
    /\ tloc' = [tloc EXCEPT ![t].v = contextKeyID]
    /\ Goto(t, "gck_write")
    /\ last' = Done(t, "step", 0)
    /\ UNCHANGED <<unthreaded, contextKeyID, scache, caches, hist>>

\* ... and the write.
GckWrite(t) ==
    /\ tpc[t] = "gck_write"
    /\ contextKeyID' = tloc[t].v + 1
    /\ Goto(t, "gck_ret")
    /\ last' = Done(t, "step", 0)
    /\ UNCHANGED <<unthreaded, scache, caches, tloc, hist>>

\* generateContextKey: Sprintf("session.%d", contextKeyID).  The build may
\* read the variable again or use the value it has just computed.
GckReturn(t) ==
    /\ tpc[t] = "gck_ret"
    /\ \E id \in {contextKeyID, tloc[t].v + 1} : Finish(t, id)
    /\ UNCHANGED <<unthreaded, contextKeyID, scache, caches, tloc>>

\* SessionCache: if scache == nil
ScCheck(t) ==
    /\ tpc[t] = "sc_check"
    /\ Goto(t, IF scache = NoCache THEN "sc_alloc" ELSE "sc_ret")
    /\ last' = Done(t, "step", 0)
    /\ UNCHANGED <<unthreaded, contextKeyID, scache, caches, tloc, hist>>

\* SessionCache: scache = &sessionCache{...}
ScAlloc(t) ==
    /\ tpc[t] = "sc_alloc"
    /\ LET c == SessionCache(NoCache, caches)
       IN  /\ scache' = c.scache
           /\ caches' = c.caches
           /\ tloc' = [tloc EXCEPT ![t].v = c.sc]
    /\ Goto(t, "sc_ret")
    /\ last' = Done(t, "step", 0)
    /\ UNCHANGED <<unthreaded, contextKeyID, hist>>

\* SessionCache: return scache.  A thread that has just allocated may return
\* what it allocated or read the variable again.
ScReturn(t) ==
    /\ tpc[t] = "sc_ret"
    /\ \E sc \in {scache} \cup ({tloc[t].v} \ {NoCache}) :
         IF tloc[t].op = "SessionCache"
         THEN Finish(t, sc) /\ tloc' = tloc
         ELSE /\ tloc' = [tloc EXCEPT ![t].sc = sc]
              /\ Goto(t, IF tloc[t].op \in LockingOps THEN "lock" ELSE "rlock")
              /\ last' = Done(t, "step", 0)
              /\ hist' = hist
    /\ UNCHANGED <<unthreaded, contextKeyID, scache, caches>>

\* sc.mu.Lock(): waits until no thread holds the lock.
Lock(t) ==
    /\ tpc[t] = "lock"
    /\ caches[tloc[t].sc].writer = NoThread
    /\ caches[tloc[t].sc].readers = {}
    /\ caches' = [caches EXCEPT ![tloc[t].sc].writer = t]
    /\ Goto(t, "body")
    /\ last' = Done(t, "step", 0)
    /\ UNCHANGED <<unthreaded, contextKeyID, scache, tloc, hist>>

\* sc.mu.RLock(): waits until no thread holds the lock exclusively.
RLock(t) ==
    /\ tpc[t] = "rlock"
    /\ caches[tloc[t].sc].writer = NoThread
    /\ caches' = [caches EXCEPT ![tloc[t].sc].readers = @ \cup {t}]
    /\ Goto(t, "body")
    /\ last' = Done(t, "step", 0)
    /\ UNCHANGED <<unthreaded, contextKeyID, scache, tloc, hist>>

\* Another thread is between the lock and the unlock of the same object.
Shared(t) ==
    \E u \in Threads \ {t} : tpc[u] \in InLock /\ tloc[u].sc = tloc[t].sc

\* The method's work on the map, up to Remove's delete.
Body(t) ==
    /\ tpc[t] = "body"
    /\ LET sc == tloc[t].sc
           op == tloc[t].op
           m  == caches[sc].instances
       IN  caches' =
             [caches EXCEPT ![sc].instances =
                CASE op = "Register" ->
                       CacheRegister(m, CookieName, tloc[t].instance)
                  [] op = "RegisterWithErrorChecks" ->
                       CacheRegisterWithErrorChecks(m, CookieName,
                                                    tloc[t].instance).instances
                  [] OTHER -> m]
    /\ Goto(t, IF tloc[t].op = "Remove"
                  /\ caches[tloc[t].sc].instances[CookieName] # Absent
               THEN "delete" ELSE "unlock")
    /\ last' = Done(t, "step", 0)
    /\ UNCHANGED <<unthreaded, contextKeyID, scache, tloc, hist>>

\* Remove: delete(sc.instances, key).  A map write next to another thread's
\* access to the map is a data race: the write goes through, or the runtime
\* stops the process (fatal error: concurrent map read and map write).
Delete(t) ==
    /\ tpc[t] = "delete"
    /\ \E fatal \in IF Shared(t) THEN BOOLEAN ELSE {FALSE} :
         IF fatal
         THEN /\ tpc' = [u \in Threads |-> "fatal"]
              /\ caches' = caches
         ELSE /\ caches' = [caches EXCEPT ![tloc[t].sc].instances =
                               CacheRemove(@, CookieName)]
              /\ Goto(t, "unlock")
    /\ last' = Done(t, "step", 0)
    /\ UNCHANGED <<unthreaded, contextKeyID, scache, tloc, hist>>

\* defer sc.mu.Unlock() / sc.mu.RUnlock(), and the method returns.
Unlock(t) ==
    /\ tpc[t] = "unlock"
    /\ caches' = [caches EXCEPT ![tloc[t].sc].writer =
                                   IF @ = t THEN NoThread ELSE @,
                                ![tloc[t].sc].readers = @ \ {t}]
    /\ Finish(t, tloc[t].sc)
    /\ UNCHANGED <<unthreaded, contextKeyID, scache, tloc>>

NextThreads ==
    \/ \E t \in Threads : ThreadCall(t)
    \/ \E t \in Threads : GckRead(t)
    \/ \E t \in Threads : GckWrite(t)
    \/ \E t \in Threads : GckReturn(t)
    \/ \E t \in Threads : ScCheck(t)
    \/ \E t \in Threads : ScAlloc(t)
    \/ \E t \in Threads : ScReturn(t)
    \/ \E t \in Threads : Lock(t)
    \/ \E t \in Threads : RLock(t)
    \/ \E t \in Threads : Body(t)
    \/ \E t \in Threads : Delete(t)
    \/ \E t \in Threads : Unlock(t)

SpecThreads == InitThreads /\ [][NextThreads]_vars


\* ------------------------------------------------- one request, many goroutines
\* The handler of one request has started goroutines that share the
\* request's context and so its sessionData.  A goroutine calls an operation
\* of the manager (sd.mu.Lock(), the work on the fields, sd.mu.Unlock()) or
\* one of the accessors LoadCheck overrides use on the *sessionData that Load
\* returned: sd.Token() and sd.SetStatus(status), which take no lock.
MutexOps == {"Put", "Pop", "Remove", "Get", "Exists", "Keys", "Status",
             "Token", "Commit", "Destroy", "RenewToken"}
AccessorOps == {"sd.Token", "sd.SetStatus"}

\* The positions whose next step reads or writes the fields of the record.
Accessing == {"body", "access"}

\* What the goroutines do not use.
unsaved == <<cookie, pc, now, idleTimeout, persist, nreq, nops, steps,
             written, renewed, committed, destroyed, ctx, stores, override,
             contextKeyID, scache, caches, live>>
unshared == <<header, unsaved>>

InitShared ==
    /\ store = [t \in StoreTokens |-> NoEntry]
    /\ scratch = newSessionData(Lifetime, StartTime)
    /\ cookie = EmptyToken
    /\ header = EmptyHeader
    /\ pc = "shared"
    /\ now = StartTime
    /\ nextToken = 1
    /\ idleTimeout = 0
    /\ persist = TRUE
    /\ nreq = 1
    /\ nops = 0
    /\ steps = <<"LoadCheck", "SaveCheck">>
    /\ written = {}
    /\ renewed = FALSE
    /\ committed = [t \in StoreTokens |-> EmptyValues]
    /\ destroyed = {}
    /\ last = Done(NoThread, "init", 0)
    /\ ctx = NoContext
    /\ stores = NoStores
    /\ override = FALSE
    /\ InitProcess

\* Goroutine t calls an operation or an accessor.
GoCall(t) ==
    /\ pc = "shared"
    /\ tpc[t] = "idle"
    /\ Len(hist) + Cardinality({u \in Threads : tpc[u] # "idle"}) < MaxCalls
    /\ \E op \in MutexOps \cup AccessorOps, status \in {Unmodified, Modified} :
         /\ op # "sd.SetStatus" => status = Unmodified
         /\ op \in {"Commit", "RenewToken"} => nextToken <= MaxTokens
         /\ tloc' = [tloc EXCEPT ![t] = [NoLocals EXCEPT !.op = op,
                                             !.v = status]]
         /\ Goto(t, IF op \in MutexOps THEN "lock" ELSE "access")
    /\ last' = Done(t, "call", 0)
    /\ UNCHANGED <<unshared, store, scratch, nextToken, mu, hist>>

\* sd.mu.Lock(): waits until no goroutine holds the mutex.
MuLock(t) ==
    /\ pc = "shared"
    /\ tpc[t] = "lock"
    /\ mu = NoThread
    /\ mu' = t
    /\ Goto(t, "body")
    /\ last' = Done(t, "step", 0)
    /\ UNCHANGED <<unshared, store, scratch, nextToken, tloc, hist>>

\* The operation's work on the record and the store, the mutex held.
MuBody(t) ==
    /\ pc = "shared"
    /\ tpc[t] = "body"
    /\ LET op == tloc[t].op
           c  == Commit(scratch, store, now, idleTimeout, nextToken, FALSE,
                        FALSE)
           d  == Destroy(scratch, store, now, FALSE)
           r  == RenewToken(scratch, store, now, nextToken, FALSE, FALSE)
       IN  /\ scratch' = CASE op = "Put" -> Put(scratch, "user", "alice")
                           [] op = "Pop" -> Pop(scratch, "user").sd
                           [] op = "Remove" -> Remove(scratch, "user")
                           [] op = "Commit" -> c.sd
                           [] op = "Destroy" -> d.sd
                           [] op = "RenewToken" -> r.sd
                           [] OTHER -> scratch
           /\ store' = CASE op = "Commit" -> c.store
                         [] op = "Destroy" -> d.store
                         [] op = "RenewToken" -> r.store
                         [] OTHER -> store
           /\ nextToken' = IF \/ op = "Commit" /\ c.minted
                              \/ op = "RenewToken" /\ r.minted
                           THEN nextToken + 1 ELSE nextToken
           /\ tloc' = [tloc EXCEPT ![t].v =
                          CASE op = "Status" -> Status(scratch)
                            [] op = "Token" -> Token(scratch)
                            [] op = "Commit" -> c.token
                            [] OTHER -> 0]
    /\ Goto(t, "unlock")
    /\ last' = Done(t, tloc[t].op, mu)
    /\ UNCHANGED <<unshared, mu, hist>>

\* sd.mu.Unlock(), and the operation returns.
MuUnlock(t) ==
    /\ pc = "shared"
    /\ tpc[t] = "unlock"
    /\ mu' = IF mu = t THEN NoThread ELSE mu
    /\ Finish(t, tloc[t].v)
    /\ UNCHANGED <<unshared, store, scratch, nextToken, tloc>>

\* sd.Token() returns sd.token, sd.SetStatus(status) assigns sd.status:
\* neither touches sd.mu.
Accessor(t) ==
    /\ pc = "shared"
    /\ tpc[t] = "access"
    /\ scratch' = IF tloc[t].op = "sd.SetStatus"
                  THEN [scratch EXCEPT !.status = tloc[t].v] ELSE scratch
    /\ tpc' = [tpc EXCEPT ![t] = "idle"]
    /\ hist' = Append(hist, Done(t, tloc[t].op,
                                 IF tloc[t].op = "sd.Token"
                                 THEN scratch.token ELSE tloc[t].v))
    /\ last' = Done(t, tloc[t].op, mu)
    /\ UNCHANGED <<unshared, store, nextToken, mu, tloc>>

\* The middleware's SaveCheck runs SaveFromMiddleware while goroutines the
\* handler started are still at work on the request's sessionData.  Its
\* positions: "save.lock1", "save.status", "save.unlock1" are s.Status(c);
\* "save.lock2", "save.commit", "save.unlock2" are s.Commit(c).
SaveLocks == {"save.lock1", "save.lock2"}

\* Whether SaveFromMiddleware has been called in this request.
SaveCalled ==
    \/ \E t \in Threads : tloc[t].op = "SaveFromMiddleware" /\ tpc[t] # "idle"
    \/ \E i \in 1..Len(hist) : hist[i].op = "SaveFromMiddleware"

\* The envelope calls SaveCheck once, on goroutine t.
SaveCall(t) ==
    /\ pc = "shared"
    /\ tpc[t] = "idle"
    /\ ~SaveCalled
    /\ Len(hist) + Cardinality({u \in Threads : tpc[u] # "idle"}) < MaxCalls
    /\ nextToken <= MaxTokens
    /\ tloc' = [tloc EXCEPT ![t] = [NoLocals EXCEPT !.op = "SaveFromMiddleware"]]
    /\ Goto(t, "save.lock1")
    /\ last' = Done(t, "call", 0)
    /\ UNCHANGED <<unshared, store, scratch, nextToken, mu, hist>>

\* sd.mu.Lock() of Status and of Commit.
SaveLock(t) ==
    /\ pc = "shared"
    /\ tpc[t] \in SaveLocks
    /\ mu = NoThread
    /\ mu' = t
    /\ Goto(t, IF tpc[t] = "save.lock1" THEN "save.status" ELSE "save.commit")
    /\ last' = Done(t, "step", 0)
    /\ UNCHANGED <<unshared, store, scratch, nextToken, tloc, hist>>

\* s.Status(c): return sd.status, the mutex held.
SaveStatus(t) ==
    /\ pc = "shared"
    /\ tpc[t] = "save.status"
    /\ tloc' = [tloc EXCEPT ![t].v = Status(scratch)]
    /\ Goto(t, "save.unlock1")
    /\ last' = Done(t, "Status", mu)
    /\ UNCHANGED <<unshared, store, scratch, nextToken, mu, hist>>

\* Status's deferred Unlock, then the switch on what it returned: Modified
\* goes on to Commit, Destroyed writes the clearing cookie, anything else
\* returns nil.
SaveSwitch(t) ==
    /\ pc = "shared"
    /\ tpc[t] = "save.unlock1"
    /\ mu' = IF mu = t THEN NoThread ELSE mu
    /\ IF tloc[t].v = Modified
       THEN /\ Goto(t, "save.lock2")
            /\ last' = Done(t, "step", 0)
            /\ UNCHANGED <<header, hist>>
       ELSE /\ header' = IF tloc[t].v = Destroyed
                         THEN WriteSessionCookie(header, CookieName, EmptyToken,
                                                 ZeroTime, now, persist)
                         ELSE header
            /\ Finish(t, EmptyToken)
    /\ UNCHANGED <<unsaved, store, scratch, nextToken, tloc>>

\* s.Commit(c): the token is generated if the record has none, the record is
\* encoded and committed to the store, the mutex held.
SaveCommit(t) ==
    /\ pc = "shared"
    /\ tpc[t] = "save.commit"
    /\ \E genErr \in BOOLEAN, commitErr \in BOOLEAN :
         LET c == Commit(scratch, store, now, idleTimeout, nextToken, genErr,
                         commitErr)
         IN  /\ scratch' = c.sd
             /\ store' = c.store
             /\ nextToken' = IF c.minted THEN nextToken + 1 ELSE nextToken
             /\ tloc' = [tloc EXCEPT ![t].v = [token |-> c.token,
                                               expiry |-> c.expiry,
                                               err |-> c.err]]
    /\ Goto(t, "save.unlock2")
    /\ last' = Done(t, "Commit", mu)
    /\ UNCHANGED <<unshared, mu, hist>>

\* Commit's deferred Unlock, then return err, or WriteSessionCookie with the
\* token and the expiry Commit returned.
SaveReturn(t) ==
    /\ pc = "shared"
    /\ tpc[t] = "save.unlock2"
    /\ mu' = IF mu = t THEN NoThread ELSE mu
    /\ header' = IF tloc[t].v.err THEN header
                  ELSE WriteSessionCookie(header, CookieName, tloc[t].v.token,
                                          tloc[t].v.expiry, now, persist)
    /\ Finish(t, tloc[t].v.token)
    /\ UNCHANGED <<unsaved, store, scratch, nextToken, tloc>>

NextShared ==
    \/ \E t \in Threads : GoCall(t)
    \/ \E t \in Threads : MuLock(t)
    \/ \E t \in Threads : MuBody(t)
    \/ \E t \in Threads : MuUnlock(t)
    \/ \E t \in Threads : Accessor(t)
    \/ \E t \in Threads : SaveCall(t)
    \/ \E t \in Threads : SaveLock(t)
    \/ \E t \in Threads : SaveStatus(t)
    \/ \E t \in Threads : SaveSwitch(t)
    \/ \E t \in Threads : SaveCommit(t)
    \/ \E t \in Threads : SaveReturn(t)

SpecShared == InitShared /\ [][NextShared]_vars



\* ------------------------------------------------------------- claims
SaveOps == {"Save", "SaveCheck"}
SameRequest == last'.op # "StartRequest"
LastCookie(h) == h.SetCookie[Len(h.SetCookie)]

C2_HandlerThenSave ==
    (pc = "done" /\ ~Skipped) =>
        /\ steps = <<"LoadCheck", "next", "SaveCheck">>
        /\ scratch.status = Modified =>
             /\ scratch.token # EmptyToken
             /\ store[scratch.token] # NoEntry
             /\ store[scratch.token].b = encode(scratch).b
             /\ \E i \in 1..Len(header.SetCookie) :
                    header.SetCookie[i].Value = scratch.token

\* C2 amended: a request that is not skipped runs LoadCheck, then SaveCheck,
\* then the handler, and nothing after it: the handler starts only after the
\* envelope's save, and when it returns the store and the response header
\* are left as the handler's own calls made them.
C2_SaveThenHandler ==
    /\ []((pc = "next" /\ ~Skipped) => steps = <<"LoadCheck", "SaveCheck">>)
    /\ []((pc = "done" /\ ~Skipped)
            => steps = <<"LoadCheck", "SaveCheck", "next">>)
    /\ [][ last'.op \in {"Return", "Put", "Pop", "Remove", "Get"}
             => store' = store /\ header' = header ]_vars

\* The handler put a value and returned: nothing was committed and no cookie
\* was set.
C2_Witness ==
    /\ pc = "done"
    /\ steps = <<"LoadCheck", "SaveCheck", "next">>
    /\ scratch.status = Modified
    /\ scratch.Values["user"] = "alice"
    /\ scratch.token = EmptyToken
    /\ header = EmptyHeader
    /\ \A t \in StoreTokens : store[t] = NoEntry

\* The state LoadCheck leaves when the store held the cookie's token.
LoadedFromStore ==
    /\ last.op = "Load"
    /\ ~last.err
    /\ steps = <<"LoadCheck">>
    /\ scratch # NoSD
    /\ scratch.token # EmptyToken

\* C3 as stated: a request that loads with a committed token gets, for every
\* key, exactly the value that was in the session when Commit wrote it.
C3_RoundTripExact ==
    LoadedFromStore =>
        /\ scratch.token = cookie
        /\ \A k \in Keys : Get(scratch, k) = committed[cookie][k]

\* C3 amended: the later request resolves the committed token and Get gives
\* each value as gob decodes it: the value itself, or, for a value put as a
\* pointer to a registered type, the value pointed to.
C3_RoundTripGob ==
    LoadedFromStore =>
        /\ scratch.token = cookie
        /\ \A k \in Keys : Get(scratch, k) = GobValue(committed[cookie][k])

\* A later request has loaded a session committed with a string and a pointer.
C3_Witness ==
    /\ LoadedFromStore
    /\ nreq = 2
    /\ committed[cookie]["user"] = "alice"
    /\ committed[cookie]["obj"] = "&obj"
    /\ Get(scratch, "user") = "alice"
    /\ Get(scratch, "obj") = "obj"

\* C4: within a request a Modified session never becomes Unmodified again.
C4_ModifiedStays ==
    [][ (SameRequest /\ scratch # NoSD /\ scratch.status = Modified)
          => (scratch' # NoSD /\ scratch'.status # Unmodified) ]_vars

\* A Modified session has been committed and is still Modified.
C4_Witness ==
    /\ last.op = "Commit"
    /\ ~last.err
    /\ scratch.status = Modified
    /\ store[scratch.token] # NoEntry

\* C5 as stated: once Destroyed, the record's status stays Destroyed for the
\* rest of the request.
C5_DestroyedStays ==
    [][ (SameRequest /\ scratch # NoSD /\ scratch.status = Destroyed)
          => scratch'.status = Destroyed ]_vars

\* C5 amended: once Destroyed, only Put and RenewToken change the status of
\* the record, and they make it Modified (a new session on the same record);
\* Commit, Load, Get, Pop, Remove and the saves leave it Destroyed.
C5_DestroyedUntilPut ==
    [][ (SameRequest /\ scratch # NoSD /\ scratch.status = Destroyed
           /\ scratch'.status # Destroyed)
          => (last'.op \in {"Put", "RenewToken"}
                /\ scratch'.status = Modified) ]_vars

\* The response holds the clearing cookie of a destroyed session and a Put
\* has since made the same record Modified.
C5_Witness ==
    /\ last.op = "Put"
    /\ scratch.status = Modified
    /\ scratch.token = EmptyToken
    /\ Len(header.SetCookie) = 1
    /\ header.SetCookie[1].MaxAge = ClearMaxAge

\* C6: a Destroyed session has an empty token and no values.
C6_DestroyedIsEmpty ==
    (scratch # NoSD /\ scratch.status = Destroyed)
        => (scratch.token = EmptyToken /\ scratch.Values = EmptyValues)

\* C7: a successful RenewToken removes the old token's entry, gives the
\* session a new token that has no entry, keeps the values and sets the
\* status Modified; the new token has no entry until a Commit succeeds.
C7_RenewDeletesOld ==
    /\ [][ (last'.op = "RenewToken" /\ ~last'.err) =>
             /\ StoreFind(store', scratch.token, now).found = FALSE
             /\ scratch.token \in StoreTokens => store'[scratch.token] = NoEntry
             /\ scratch'.token # scratch.token
             /\ scratch'.token # EmptyToken
             /\ store'[scratch'.token] = NoEntry
             /\ \A t \in StoreTokens \ {scratch.token} : store'[t] = store[t]
             /\ scratch'.Values = scratch.Values
             /\ scratch'.status = Modified ]_vars
    /\ [](renewed => (scratch.token # EmptyToken
                        /\ store[scratch.token] = NoEntry))

\* A session loaded from the store under the cookie's token has been renewed.
C7_Witness ==
    /\ last.op = "RenewToken"
    /\ ~last.err
    /\ renewed
    /\ cookie \in StoreTokens
    /\ cookie # Forged
    /\ scratch.token # cookie
    /\ store[cookie] = NoEntry
    /\ scratch.Values["obj"] = "obj"

\* C8: once a session has a token, every Commit keeps it and writes under
\* it; a Commit of a session without token takes a token never used before.
\* So between two of Destroy, RenewToken and the request's start, the
\* Commits of a request write under at most one token.
C8_OneTokenPerSession ==
    /\ [](Cardinality(written) <= 1)
    /\ [][ (last'.op \in SaveOps \cup {"Commit"}) =>
             /\ (last'.op = "Commit" /\ ~last'.err)
                  => (scratch'.token # EmptyToken
                        /\ store'[scratch'.token] # NoEntry)
             /\ scratch.token # EmptyToken => scratch'.token = scratch.token
             /\ (scratch.token = EmptyToken /\ scratch'.token # EmptyToken)
                  => (scratch'.token = nextToken /\ store[nextToken] = NoEntry)
             /\ \A t \in StoreTokens \ {scratch'.token} : store'[t] = store[t]
         ]_vars

\* A session that arrived without cookie was saved twice: both cookies carry
\* the same token, the only one written.
C8_Witness ==
    /\ cookie = EmptyToken
    /\ Len(header.SetCookie) = 2
    /\ header.SetCookie[1].Value # EmptyToken
    /\ header.SetCookie[2].Value = header.SetCookie[1].Value
    /\ written = {scratch.token}

\* C9: after any Commit returns, failed or not, a session with a token (not
\* just renewed) has a payload in the store under that token.
C9_TokenIsPersisted ==
    (last.op \in SaveOps \cup {"Commit"} /\ scratch.token # EmptyToken
       /\ ~renewed)
        => store[scratch.token] # NoEntry

\* C10: Load with no token, or with a token the store does not find, puts a
\* new session in the context (no token, no values, Unmodified) and does not
\* write to the store.
C10_FreshOnMiss ==
    [][ (last'.op = "Load" /\ ~last'.err /\ scratch = NoSD
           /\ (cookie = EmptyToken \/ ~StoreFind(store, cookie, now).found))
          => (/\ scratch' # NoSD
              /\ scratch'.token = EmptyToken
              /\ scratch'.Values = EmptyValues
              /\ scratch'.status = Unmodified
              /\ scratch'.Deadline = now + Lifetime
              /\ store' = store) ]_vars

\* A made-up token, or one whose entry has expired, was presented and a new
\* session without token was loaded.
C10_Witness ==
    /\ last.op = "Load"
    /\ ~last.err
    /\ steps = <<"LoadCheck">>
    /\ cookie # EmptyToken
    /\ cookie # Forged
    /\ store[cookie] # NoEntry
    /\ scratch.token = EmptyToken
    /\ scratch.status = Unmodified
    /\ scratch.Values = EmptyValues

\* C11: once the context holds a session, every later Load of the request
\* returns that record without error, whatever token it is given and whether
\* or not the store would fail: the record (token, status, values, deadline)
\* and the store are left as they were.
C11_LoadIdempotent ==
    [][ (last'.op = "Load" /\ scratch # NoSD)
          => (scratch' = scratch /\ store' = store /\ ~last'.err) ]_vars

\* The handler changed the session and then called Load with the token of
\* another session the store holds: the changed record is still there.
C11_Witness ==
    /\ last.op = "Load"
    /\ last.val = OtherSession
    /\ steps = <<"LoadCheck", "SaveCheck">>
    /\ scratch.status = Modified
    /\ scratch.Values["user"] = "alice"
    /\ \E t \in StoreTokens :
          /\ t # scratch.token
          /\ StoreFind(store, t, now).found

\* C12: a Load that finds and decodes the cookie's payload yields a session
\* with the cookie's token whose status is Modified exactly when IdleTimeout
\* is positive.  With IdleTimeout = 0 the SaveCheck that follows and a
\* handler that only reads (Get, Load) write neither the store nor a header,
\* so the request ends without Set-Cookie.  With IdleTimeout > 0 that
\* SaveCheck, when its Commit succeeds, writes the payload again under the
\* same token and sets one cookie carrying it.
C12_IdleForcesSave ==
    /\ [][ (last'.op = "Load" /\ ~last'.err /\ scratch = NoSD
              /\ StoreFind(store, cookie, now).found)
             => /\ scratch'.token = cookie
                /\ scratch'.status = Modified <=> idleTimeout > 0
                /\ scratch'.status = Unmodified <=> idleTimeout = 0
                /\ store' = store
                /\ header' = header ]_vars
    /\ [][ (last'.op = "SaveCheck" /\ scratch.token # EmptyToken) =>
             IF idleTimeout = 0
             THEN store' = store /\ header' = header /\ ~last'.err
             ELSE ~last'.err =>
                    /\ scratch'.token = cookie
                    /\ store'[cookie] # NoEntry
                    /\ store'[cookie].b = encode(scratch).b
                    /\ Len(header'.SetCookie) = 1
                    /\ header'.SetCookie[1].Value = cookie ]_vars
    /\ [][ (pc = "next" /\ last'.op \in {"Get", "Load", "Return"})
             => (store' = store /\ header' = header /\ scratch' = scratch)
       ]_vars
    /\ []((pc = "done" /\ steps = <<"LoadCheck", "SaveCheck", "next">>
             /\ idleTimeout = 0 /\ scratch.status = Unmodified
             /\ scratch.token # EmptyToken /\ written = {})
            => header = EmptyHeader)

\* With an idle timeout, a returning request whose handler only read a value
\* ends with the session's cookie set again.
C12_Witness ==
    /\ pc = "done"
    /\ scratch # NoSD
    /\ idleTimeout > 0
    /\ nreq = 2
    /\ nops = 2
    /\ cookie # EmptyToken
    /\ scratch.token = cookie
    /\ scratch.Values["user"] = "alice"
    /\ store[cookie].b.Values["user"] = "alice"
    /\ Len(header.SetCookie) = 1
    /\ header.SetCookie[1].Value = cookie
    /\ header.CacheControl = <<CacheControlValue>>

Min(a, b) == IF a < b THEN a ELSE b

\* A step in which a Commit, called by the handler or by a save, has written
\* the session to the store.
CommitWrote ==
    /\ ~last'.err
    /\ \/ last'.op = "Commit"
       \/ last'.op \in SaveOps /\ scratch.status = Modified

\* C13: the expiry a successful Commit writes to the store is the session's
\* deadline when IdleTimeout = 0 and min(deadline, now + IdleTimeout) when
\* IdleTimeout > 0, so it is never later than the deadline; it is also the
\* expiry Commit returns, which a save puts in a persistent cookie.
C13_CommitExpiry ==
    [][ CommitWrote =>
          LET e == store'[scratch'.token].expiry
          IN  /\ e = IF idleTimeout = 0 THEN scratch.Deadline
                     ELSE Min(scratch.Deadline, now + idleTimeout)
              /\ e <= scratch.Deadline
              /\ scratch'.Deadline = scratch.Deadline
              /\ (last'.op \in SaveOps /\ persist)
                   => LastCookie(header').Expires = e + 1 ]_vars

\* With an idle timeout a session loaded at its deadline is committed again:
\* the idle expiry would be after the deadline, so the deadline is written.
C13_Witness ==
    /\ last.op = "SaveCheck"
    /\ ~last.err
    /\ idleTimeout > 0
    /\ nreq = 2
    /\ scratch.token = cookie
    /\ cookie = StoredToken
    /\ now + idleTimeout > scratch.Deadline
    /\ store[cookie].expiry = scratch.Deadline

\* C14: a token that Destroy has deleted has no entry in the store for the
\* rest of the request and is not the session's token again.  Destroy leaves
\* the record without token and without values, and it has no values while
\* it stays Destroyed, so what is saved later was put after the Destroy.  A
\* later save that succeeds either finds the record Destroyed and appends
\* only the clearing cookie, the store untouched, or finds it Modified and
\* commits its present values under a token that is none of the deleted ones
\* nor the one the request presented, and sets the cookie to that token.
C14_DestroyedTokenGone ==
    /\ [](\A t \in destroyed :
             /\ store[t] = NoEntry
             /\ scratch # NoSD => scratch.token # t)
    /\ []((scratch # NoSD /\ scratch.status = Destroyed)
             => scratch.Values = EmptyValues)
    /\ [][ (last'.op = "Destroy" /\ ~last'.err) =>
             /\ scratch'.token = EmptyToken
             /\ scratch'.Values = EmptyValues
             /\ scratch.token # EmptyToken
                  => (store'[scratch.token] = NoEntry
                        /\ scratch.token \in destroyed')
             /\ \A t \in StoreTokens \ {scratch.token} : store'[t] = store[t]
         ]_vars
    /\ [][ (last'.op \in SaveOps /\ ~last'.err /\ destroyed # {}) =>
             \/ /\ scratch.status = Destroyed
                /\ store' = store
                /\ header'.SetCookie =
                     Append(header.SetCookie,
                            [Name |-> CookieName, Value |-> EmptyToken,
                             Expires |-> UnixOne, MaxAge |-> ClearMaxAge])
             \/ /\ scratch.status = Modified
                /\ scratch'.token \notin destroyed \cup {EmptyToken, cookie}
                /\ store'[scratch'.token].b = encode(scratch).b
                /\ LastCookie(header').Value = scratch'.token
         ]_vars

\* The request presented a stored session's token; the handler destroyed the
\* session, put a new value and saved: the old entry is gone and the new
\* value is stored under another token, without the old session's value.
C14_Witness ==
    /\ last.op = "Save"
    /\ ~last.err
    /\ cookie = StoredToken
    /\ destroyed = {StoredToken}
    /\ store[StoredToken] = NoEntry
    /\ scratch.status = Modified
    /\ scratch.token \notin {EmptyToken, StoredToken}
    /\ store[scratch.token].b.Values = [EmptyValues EXCEPT !["obj"] = "obj"]
    /\ LastCookie(header).Value = scratch.token

\* C15: when LoadCheck fails the closure returns the error at once: the
\* context, the store and the response header are as before, and neither
\* SaveCheck nor the handler runs.  When the Commit inside SaveCheck fails,
\* SaveCheck returns the error, the response gets no Set-Cookie, no
\* Cache-Control and no Vary, and the handler does not run.
C15_ErrorsStopEnvelope ==
    /\ [][ (pc = "load" /\ last'.op = "Load" /\ last'.err)
             => /\ pc' = "error"
                /\ scratch' = scratch
                /\ store' = store
                /\ header' = header ]_vars
    /\ [][ (last'.op = "SaveCheck" /\ last'.err)
             => /\ pc' = "error"
                /\ scratch.status = Modified
                /\ store' = store
                /\ header' = header ]_vars
    /\ [][ pc = "error" => last'.op \in {"StartRequest", "Tick"} ]_vars
    /\ [](pc = "error" =>
            /\ steps \in {<<"LoadCheck">>, <<"LoadCheck", "SaveCheck">>}
            /\ header = EmptyHeader
            /\ steps = <<"LoadCheck">> => scratch = NoSD)

\* A returning session under an idle timeout: SaveCheck's Commit failed, the
\* closure ended with the error and the response carries no header.
C15_Witness ==
    /\ pc = "error"
    /\ last.op = "SaveCheck"
    /\ last.err
    /\ steps = <<"LoadCheck", "SaveCheck">>
    /\ scratch.status = Modified
    /\ scratch.token = cookie
    /\ cookie # EmptyToken
    /\ header = EmptyHeader

\* C16: when Store.Find returns an error, or returns bytes that do not
\* decode, Load returns the error: the context still holds no session (no
\* new session takes the place of the stored one) and the store is as it
\* was.  Load returns no other error.
C16_LoadErrorsSurface ==
    [][ last'.op = "Load" =>
          /\ last'.val \in {FindFailed, DecodeFailed}
               => /\ last'.err
                  /\ scratch = NoSD
                  /\ scratch' = NoSD
                  /\ store' = store
          /\ last'.err => last'.val \in {FindFailed, DecodeFailed} ]_vars

\* The cookie names a stored, unexpired session whose bytes did not decode:
\* the request ended with the error, the entry is still in the store.
C16_Witness ==
    /\ pc = "error"
    /\ last.op = "Load"
    /\ last.err
    /\ last.val = DecodeFailed
    /\ scratch = NoSD
    /\ StoreFind(store, cookie, now).found
    /\ store[cookie].b.Values["user"] = "alice"

\* C17: while the context holds no session, every operation that needs one
\* (Put, Get, Pop, Remove, Exists, Keys, Commit, Destroy, RenewToken, Status,
\* Token) panics, with the context, the store and the response header left
\* as they were; the handler can only return, or panic in such a call.  No
\* operation panics this way while the context holds a session.
C17_NoSessionPanics ==
    /\ [][ (pc = "next" /\ scratch = NoSD) =>
             /\ \/ last'.op = "Return" /\ pc' = "done"
                \/ /\ last'.op = "panic"
                   /\ last'.val \in SessionOps
                   /\ pc' = "panic"
             /\ scratch' = scratch
             /\ store' = store
             /\ header' = header ]_vars
    /\ [][ (pc' = "panic" /\ pc # "panic")
             => (pc = "next" /\ scratch = NoSD) ]_vars

\* A skipped request that presented a stored session's token: the handler
\* called Destroy and panicked; the stored session is still there.
C17_Witness ==
    /\ pc = "panic"
    /\ last.op = "panic"
    /\ last.val = "Destroy"
    /\ steps = <<"skip">>
    /\ scratch = NoSD
    /\ cookie \notin {EmptyToken, Forged}
    /\ store[cookie] # NoEntry
    /\ header = EmptyHeader

PopOps == {"Pop", "PopString"}

Count(values, value) ==
    Cardinality({i \in 1..Len(values) : values[i] = value})

\* C19: once a cookie has been written to the response, by however many
\* saves of one manager or of both, the response holds exactly one
\* Cache-Control value no-cache="Set-Cookie" and exactly one Vary value
\* Cookie, next to the values the application had set; a response without
\* session cookie has its headers as the application left them.
C19_OneCachingHeader ==
    /\ [](Len(header.SetCookie) > 0 =>
            /\ Count(header.CacheControl, CacheControlValue) = 1
            /\ Count(header.Vary, VaryValue) = 1)
    /\ [](Len(header.SetCookie) = 0 => header \in {EmptyHeader, PresetHeader})
    /\ [][ /\ Len(header'.CacheControl) <= Len(header.CacheControl) + 1
           /\ Len(header'.Vary) <= Len(header.Vary) + 1
           /\ SubSeq(header'.CacheControl, 1, Len(header.CacheControl))
                = header.CacheControl
           /\ SubSeq(header'.Vary, 1, Len(header.Vary)) = header.Vary
         ]_vars

\* Three cookies were written, by both managers, to a response that already
\* had a Vary and a Cache-Control value: each header got one more value.
C19_Witness ==
    /\ Len(header.SetCookie) = 3
    /\ \A m \in Managers :
          \E i \in 1..3 : header.SetCookie[i].Name = m
    /\ header.CacheControl = <<"private", CacheControlValue>>
    /\ header.Vary = <<"Accept-Encoding", VaryValue>>

\* C20: an operation through one manager (Load, Put, Pop, Remove, Commit,
\* Destroy, RenewToken, a save) leaves the other manager's session (token,
\* status, values, deadline) and the other manager's store as they were; a
\* save that writes a cookie appends one cookie to the response, named by the
\* saving manager and carrying its session's token, or empty when that
\* session is Destroyed, and leaves the cookies already there in place.
C20_ManagersIsolated ==
    /\ [][ \A m \in Managers :
             last'.val # m =>
                /\ ctx'[contextKey(m)] = ctx[contextKey(m)]
                /\ stores'[m] = stores[m] ]_vars
    /\ [][ (last'.op = "Save" /\ header'.SetCookie # header.SetCookie) =>
             /\ header'.SetCookie
                  = Append(header.SetCookie, LastCookie(header'))
             /\ LastCookie(header').Name = last'.val
             /\ LastCookie(header').Value
                  = IF ctx[contextKey(last'.val)].status = Destroyed
                    THEN EmptyToken
                    ELSE ctx'[contextKey(last'.val)].token ]_vars
    /\ [](\A m \in Managers :
            ctx[contextKey(m)] # NoSD =>
               \A n \in Managers \ {m} :
                  ctx[contextKey(m)].token = EmptyToken
                    \/ stores[n][ctx[contextKey(m)].token] = NoEntry)

\* Both managers saved a session on the request: two cookies, each under
\* its manager's name with its manager's token, and different values held.
C20_Witness ==
    /\ Len(header.SetCookie) = 2
    /\ header.SetCookie[1].Name = "session1"
    /\ header.SetCookie[2].Name = "session2"
    /\ ctx["session.1"] # NoSD
    /\ ctx["session.2"] # NoSD
    /\ header.SetCookie[1].Value = ctx["session.1"].token
    /\ header.SetCookie[2].Value = ctx["session.2"].token
    /\ ctx["session.1"].token # EmptyToken
    /\ ctx["session.2"].token \notin {EmptyToken, ctx["session.1"].token}
    /\ ctx["session.1"].Values["user"] = "alice"
    /\ ctx["session.2"].Values["user"] = "&obj"
    /\ stores["session1"][ctx["session.1"].token] # NoEntry
    /\ stores["session1"][ctx["session.2"].token] = NoEntry

\* The completed NewSession calls, by their position in the history.
NewSessions == {i \in 1..Len(hist) : hist[i].op = "NewSession"}

\* C21 as stated: the contextKeys of any two managers constructed in the
\* process differ, whatever the threads that called NewSession.
C21_ContextKeysDistinct ==
    \A i, j \in NewSessions : i # j => hist[i].val # hist[j].val

\* C22 as stated: a goroutine about to read or write the fields of the shared
\* sessionData, in an operation of the manager or in the accessors sd.Token
\* and sd.SetStatus, holds the record's mutex, so no two goroutines are at
\* such an access at the same time.
C22_AccessUnderMutex ==
    /\ \A t \in Threads : tpc[t] \in Accessing => mu = t
    /\ \A t, u \in Threads :
          tpc[t] \in Accessing /\ tpc[u] \in Accessing => t = u

\* C23 as stated: a thread between the lock and the unlock of a method that
\* writes the map (Register, RegisterWithErrorChecks, Remove) holds the lock
\* exclusively, and no other thread is between the lock and the unlock of a
\* method of the same object.
C23_WritersExclusive ==
    \A t \in Threads :
        tpc[t] \in InLock /\ tloc[t].op \in MapWritingOps =>
            /\ caches[tloc[t].sc].writer = t
            /\ caches[tloc[t].sc].readers = {}
            /\ ~Shared(t)

\* C24: RegisterWithErrorChecks returns an error when the instance is nil or
\* the key is already in the map, and then the map is as it was (the entry of
\* the key is kept, Length is the same); otherwise it returns no error and the
\* map holds the instance under the key, its other entries as they were.
C24_StrictRegister ==
    [][last'.op = "RegisterWithErrorChecks" =>
         IF last'.arg = NilConfig \/ Instances[last'.key] # Absent
         THEN /\ last'.ret # NoError
              /\ Instances' = Instances
              /\ CacheGet(Instances', last'.key) = CacheGet(Instances, last'.key)
              /\ CacheLength(Instances') = CacheLength(Instances)
         ELSE /\ last'.ret = NoError
              /\ Instances' = [Instances EXCEPT ![last'.key] = last'.arg]
              /\ CacheLength(Instances') = CacheLength(Instances) + 1]_vars

\* A second config was refused under a key that holds another config, which
\* is still there.
C24_Witness ==
    /\ last.op = "RegisterWithErrorChecks"
    /\ last.ret = ErrAlreadyFound
    /\ last.arg # NilConfig
    /\ last.old # Absent
    /\ last.old # last.arg
    /\ Instances[last.key] = last.old

\* C25 as stated: whatever the key and the instance, the map's entry for the
\* key after Register is the instance, and a Get of the key that follows
\* returns it.
C25_RegisterAlwaysOverwrites ==
    [][/\ last'.op = "Register" =>
            CacheGet(Instances', last'.key) = last'.arg
       /\ last.op = "Register" /\ last'.op = "Get" /\ last'.key = last.key =>
            last'.ret = last.arg]_vars

\* C25: Register with a non-nil instance stores it under the key, whether or
\* not the key was in the map, and leaves the other keys alone: a Get of the
\* key that follows returns the instance.  Register with a nil instance
\* changes nothing: a Get that follows returns what it returned before.
C25_RegisterOverwritesNonNil ==
    [][/\ last'.op = "Register" =>
            IF last'.arg # NilConfig
            THEN Instances' = [Instances EXCEPT ![last'.key] = last'.arg]
            ELSE Instances' = Instances
       /\ last.op = "Register" /\ last'.op = "Get" /\ last'.key = last.key =>
            last'.ret = IF last.arg # NilConfig THEN last.arg
                        ELSE CacheGet(Instances, last.key)]_vars

\* A Register has replaced the config another Register had stored.
C25_Witness ==
    /\ last.op = "Register"
    /\ last.arg # NilConfig
    /\ last.old \notin {Absent, last.arg}
    /\ CacheGet(Instances, last.key) = last.arg

\* C26: after Remove(key) the map has no entry for the key and its other
\* entries are as they were, so Length is one less when the key was there and
\* the same when it was not; a Get of the key that follows returns nil; and
\* after every call Length is the number of keys registered and not removed
\* since, which is 0 when all of them have been removed.
C26_RemoveIdempotent ==
    [][/\ last'.op = "Remove" =>
            /\ CacheGet(Instances', last'.key) = NilConfig
            /\ \A k \in RegKeys \ {last'.key} : Instances'[k] = Instances[k]
            /\ CacheLength(Instances') =
                 IF Instances[last'.key] # Absent
                 THEN CacheLength(Instances) - 1 ELSE CacheLength(Instances)
       /\ last.op = "Remove" /\ last'.op = "Get" /\ last'.key = last.key =>
            last'.ret = NilConfig
       /\ last.op = "Remove" /\ last'.op = "Remove" /\ last'.key = last.key =>
            Instances' = Instances
       /\ CacheLength(Instances') = Cardinality(live')
       /\ last'.op = "Length" => last'.ret = Cardinality(live)
       /\ live' = {} => CacheLength(Instances') = 0]_vars

\* The last registered key has been removed: the registry is empty again.
C26_Witness ==
    /\ last.op = "Remove"
    /\ last.old # Absent
    /\ live = {}
    /\ CacheLength(Instances) = 0

\* The completed calls of SessionCache() and of the registry's methods.
RegistryCalls == {i \in 1..Len(hist) : hist[i].op # "NewSession"}

\* C27 as stated: every call of SessionCache() in the process returns the
\* same object, so every registry call works on the same map.
C27_OneRegistry ==
    \A i, j \in RegistryCalls : hist[i].val = hist[j].val

\* C28: SessionsWithConfig leaves the registry as it was when Initialize
\* fails (it panics) and when DoCache is false; with DoCache true it panics
\* and leaves the registry as it was when the cookie name is already
\* registered, and otherwise adds its config under the cookie name and
\* changes no other entry.
C28_MiddlewareRegisters ==
    [][last'.op = "SessionsWithConfig" =>
         IF last'.ret.initFails
         THEN last'.ret.panic /\ Instances' = Instances
         ELSE IF ~last'.ret.DoCache
         THEN ~last'.ret.panic /\ Instances' = Instances
         ELSE IF Instances[last'.key] # Absent
         THEN last'.ret.panic /\ Instances' = Instances
         ELSE /\ ~last'.ret.panic
              /\ Instances' = [Instances EXCEPT ![last'.key] = last'.arg]]_vars

\* A second middleware with DoCache was constructed under a cookie name that
\* another config holds: the call panicked and the first config is still there.
C28_Witness ==
    /\ last.op = "SessionsWithConfig"
    /\ last.ret.panic
    /\ ~last.ret.initFails
    /\ last.ret.DoCache
    /\ last.old \notin {Absent, last.arg}
    /\ Instances[last.key] = last.old

\* C29: when the Skipper returns true the closure goes straight to next(c),
\* and through the end of the request neither LoadCheck nor SaveCheck has
\* run, the context holds no SessionData, the response header is empty and
\* the store is as it was when the request arrived.
C29_SkipperBypasses ==
    /\ [](Skipped =>
            /\ scratch = NoSD
            /\ header = EmptyHeader
            /\ pc \in {"next", "done", "panic"}
            /\ \A i \in 1..Len(steps) : steps[i] \in {"skip", "next"})
    /\ [][last'.op = "Skipper" /\ Skipped' => pc' = "next"]_vars
    /\ [][Skipped' => store' = store /\ nextToken' = nextToken]_vars

\* A skipped request that carried the token of a stored session has ended.
C29_Witness ==
    /\ Skipped
    /\ pc = "done"
    /\ steps = <<"skip", "next">>
    /\ cookie \notin {EmptyToken, Forged}
    /\ store[cookie] # NoEntry
    /\ scratch = NoSD
    /\ header = EmptyHeader

\* The request's cookie names no session of the store.
NoValidCookie == cookie = EmptyToken \/ ~StoreFind(store, cookie, now).found

\* The session in the context has a token, the store holds an entry under
\* it, and the last Set-Cookie of the response carries it under Cookie.Name.
TokenCommitted ==
    /\ scratch # NoSD
    /\ Token(scratch) # EmptyToken
    /\ store[Token(scratch)] # NoEntry
    /\ Len(header.SetCookie) >= 1
    /\ LastCookie(header).Name = CookieName
    /\ LastCookie(header).Value = Token(scratch)

C31_SaveNeverCommitsDestroyed ==
    /\ \A t \in Threads :
          tpc[t] = "save.commit" => Status(scratch) # Destroyed
    /\ (last.op = "SaveFromMiddleware" /\ last.val # EmptyToken) =>
          Status(scratch) # Destroyed

\* C32: a Destroy or a RenewToken that returns an error (Store.Delete
\* failed, or generateToken failed in RenewToken) leaves the sessionData in
\* the context as it was: its token, its Deadline, its status and its Values.
C32_ErrorLeavesRecord ==
    [][(last'.op \in {"Destroy", "RenewToken"} /\ last'.err) =>
           /\ Token(scratch') = Token(scratch)
           /\ scratch'.Deadline = scratch.Deadline
           /\ Status(scratch') = Status(scratch)
           /\ scratch'.Values = scratch.Values]_vars

\* A RenewToken has failed at generateToken on a session that holds a value
\* and was committed in this request: Store.Delete has already removed the
\* entry, and the record still carries the token.
C32_Witness ==
    /\ last.op = "RenewToken"
    /\ last.err
    /\ Token(scratch) # EmptyToken
    /\ Token(scratch) \in written
    /\ store[Token(scratch)] = NoEntry
    /\ Status(scratch) = Modified
    /\ scratch.Values # EmptyValues

=========================================================================
